---- MODULE Spec2Model ----
(***************************************************************************)
(* A model of src/pg-query-builder.js: the chainable QueryBuilder, its     *)
(* SQL compilation and its execution against the connector (pg.Pool).      *)
(*                                                                         *)
(* Representation.                                                         *)
(*  - A JavaScript value is a record [t, s, e]: t its type tag, s the text *)
(*    of a scalar, e the elements of an array (values) or the entries of   *)
(*    an object ([k, v] records, in key order).                            *)
(*  - A nullable field holds None (null) or Some(x).                       *)
(*  - A statement's text is the sequence of its lexical tokens, each a     *)
(*    string; the placeholder $n is the token "$n".                        *)
(*  - A column name is the sequence of its parts between '->'; a column    *)
(*    list is the sequence of its comma-separated items.                   *)
(***************************************************************************)
EXTENDS Integers, Sequences, FiniteSets, TLC

\* ------------------------------------------------------------------ bounds
\* Builders a run holds beside db.
MaxChains == 2
\* Chain-method calls and consumptions (then/catch) made on one builder.
MaxSteps == 4
\* Calls, consumptions and connector answers on all the chains of the
\* interleaved runs.
PairSteps == 6
\* Calls and consumptions made on the chain of the upsert runs.
UpsertSteps == 2
\* Filter and order calls made on the chain of the column runs.
ColumnSteps == 2
\* Calls and consumptions made on the chain of the select runs.
SelectSteps == 4
\* Calls and consumptions made on the chain of the runs that build a chain
\* with every method.
LazySteps == 3
\* Calls and consumptions made on the chain of the update runs.
UpdateSteps == 4
\* Calls and consumptions made on the chain of the row runs.
RowSteps == 2
\* Calls and consumptions made on the chain of the select-shape runs.
ShapeSteps == 4
\* Largest placeholder index the token scanner recognises.
PhMax == 12
\* Largest count the COUNT(*) text scanner recognises.
CountMax == 3

\* ------------------------------------------------------------ JS values
None == <<>>
Some(x) == <<x>>
IsNone(o) == o = <<>>
Get(o) == o[1]

VNull == [t |-> "null", s |-> "", e |-> <<>>]
VUndef == [t |-> "undefined", s |-> "", e |-> <<>>]
VNum(n) == [t |-> "number", s |-> ToString(n), e |-> <<>>]
VNaN == [t |-> "number", s |-> "NaN", e |-> <<>>]
VStr(x) == [t |-> "string", s |-> x, e |-> <<>>]
VBool(b) == [t |-> "boolean", s |-> IF b THEN "true" ELSE "false", e |-> <<>>]
VArr(elems) == [t |-> "array", s |-> "", e |-> elems]
VObj(entries) == [t |-> "object", s |-> "", e |-> entries]
VErr(msg) == [t |-> "Error", s |-> msg, e |-> <<>>]
Entry(key, val) == [k |-> key, v |-> val]

\* typeof v === 'object' (arrays, plain objects, Error instances and null)
TypeofObject(v) == v.t \in {"null", "array", "object", "Error"}

\* Object.keys(obj)
Keys(obj) == [i \in 1..Len(obj.e) |-> obj.e[i].k]

\* obj[key]: the value of the entry, undefined when the key is absent
Prop(obj, key) ==
  IF \E i \in 1..Len(obj.e) : obj.e[i].k = key
  THEN obj.e[CHOOSE i \in 1..Len(obj.e) : obj.e[i].k = key].v
  ELSE VUndef

RECURSIVE JoinStr(_, _)
\* Array.prototype.join on strings
JoinStr(strs, sep) ==
  IF Len(strs) = 0 THEN ""
  ELSE IF Len(strs) = 1 THEN strs[1]
  ELSE strs[1] \o sep \o JoinStr(Tail(strs), sep)

RECURSIVE JsonText(_)
\* JSON.stringify(v), for the values the model binds
JsonText(v) ==
  CASE v.t = "null" -> "null"
    [] v.t = "undefined" -> "null"
    [] v.t = "number" -> v.s
    [] v.t = "boolean" -> v.s
    [] v.t = "string" -> "\"" \o v.s \o "\""
    [] v.t = "array" ->
         "[" \o JoinStr([i \in 1..Len(v.e) |-> JsonText(v.e[i])], ",") \o "]"
    [] v.t = "object" ->
         "{" \o JoinStr([i \in 1..Len(v.e) |->
                  "\"" \o v.e[i].k \o "\":" \o JsonText(v.e[i].v)], ",") \o "}"
    [] OTHER -> "{}"

\* _pgVal serialising every non-empty array
PgValStringifiesArrays(val) ==
  IF val.t \in {"null", "undefined"} THEN val
  ELSE IF val.t = "array" THEN
    IF Len(val.e) = 0 THEN VStr("{}") ELSE VStr(JsonText(val))
  ELSE IF TypeofObject(val) THEN VStr(JsonText(val))
  ELSE val

\* QueryBuilder._pgVal
pgVal(val) ==
  IF val.t \in {"null", "undefined"} THEN val
  ELSE IF val.t = "array" THEN
    IF Len(val.e) = 0 THEN VStr("{}")
    ELSE IF TypeofObject(val.e[1]) /\ val.e[1].t # "null" THEN VStr(JsonText(val))
    ELSE val
  ELSE IF TypeofObject(val) THEN VStr(JsonText(val))
  ELSE val

\* ------------------------------------------------------------ SQL tokens
\* `"${name}"`
Quoted(name) == "\"" \o name \o "\""
\* `$${n}`
Ph(n) == "$" \o ToString(n)

\* _pgCol quoting every column name whole
PgColQuotesAll(col) ==
  IF Len(col) > 1 THEN Quoted(col[1] \o "->" \o col[2])
  ELSE Quoted(col[1])

\* QueryBuilder._pgCol: col is the sequence col.split('->')
pgCol(col) ==
  IF Len(col) > 1 THEN col[1] \o "->>'" \o col[2] \o "'"
  ELSE Quoted(col[1])

RECURSIVE JoinToks(_, _)
\* fragments.join(sep), each fragment a token sequence, sep a token sequence
JoinToks(frags, sep) ==
  IF Len(frags) = 0 THEN <<>>
  ELSE IF Len(frags) = 1 THEN frags[1]
  ELSE frags[1] \o sep \o JoinToks(Tail(frags), sep)

\* One item of a comma-separated list: pad is the white space around the
\* name, which trim() removes.
Part(pad, name) == [pad |-> pad, name |-> name]
Trim(part) == part.name
\* the column string '*'
Star == << Part("", "*") >>

\* -------------------------------------------------------- builder state
\* QueryBuilder.constructor (the pool is the one module-level connector)
NewBuilder ==
  [ table |-> None,
    operation |-> None,
    selectCols |-> Star,
    countExact |-> FALSE,
    joins |-> <<>>,
    wheres |-> <<>>,
    params |-> <<>>,
    orderClauses |-> <<>>,
    limitVal |-> None,
    singleResult |-> FALSE,
    insertData |-> None,
    updateData |-> None,
    upsertConflict |-> None,
    returnData |-> FALSE ]

\* ------------------------------------------------------- chain methods
\* from() written as a setter: this._table = table; return this
FromReturnsThis(this, table) ==
  [receiver |-> [this EXCEPT !.table = Some(table)],
   builder |-> [this EXCEPT !.table = Some(table)]]

\* from() returning a copy of the receiver with the table replaced
FromCopiesReceiver(this, table) ==
  [receiver |-> this, builder |-> [this EXCEPT !.table = Some(table)]]

\* QueryBuilder.from: the receiver as the call leaves it, and the builder
\* it returns (a new one on the same pool)
from(this, table) ==
  [receiver |-> this, builder |-> [NewBuilder EXCEPT !.table = Some(table)]]

\* The argument of select(): cols are the items before the embedded
\* relation, rel is None or Some of the relation name(c1, ..., ck), whose
\* name is stem \o plural with plural = "s" exactly when it ends in 's'.
Relation(stem, plural, cols) == [stem |-> stem, plural |-> plural, cols |-> cols]
Columns(cols, rel) == [cols |-> cols, rel |-> rel]

\* select() keeping only the relation of the latest call
SelectReplacesJoin(this, columns, countOpt) ==
  IF this.operation \in {Some("insert"), Some("update"), Some("upsert")}
  THEN [this EXCEPT !.returnData = TRUE]
  ELSE
    LET base == [this EXCEPT !.operation = Some("select"),
                             !.countExact = (countOpt = "exact")]
    IN IF ~IsNone(columns.rel)
       THEN LET r == Get(columns.rel)
                name == r.stem \o r.plural
            IN [base EXCEPT
                  !.selectCols = IF columns.cols = <<>> THEN Star ELSE columns.cols,
                  !.joins = << [ table |-> name,
                                 columns |-> [i \in 1..Len(r.cols) |-> Trim(r.cols[i])],
                                 fk |-> r.stem \o "_id" ] >>]
       ELSE [base EXCEPT !.selectCols = columns.cols]

\* QueryBuilder.select
select(this, columns, countOpt) ==
  IF this.operation \in {Some("insert"), Some("update"), Some("upsert")}
  THEN [this EXCEPT !.returnData = TRUE]
  ELSE
    LET base == [this EXCEPT !.operation = Some("select"),
                             !.countExact = (countOpt = "exact")]
    IN IF ~IsNone(columns.rel)
       THEN LET r == Get(columns.rel)
                name == r.stem \o r.plural
            IN [base EXCEPT
                  !.selectCols = IF columns.cols = <<>> THEN Star ELSE columns.cols,
                  !.joins = Append(this.joins,
                              [ table |-> name,
                                columns |-> [i \in 1..Len(r.cols) |-> Trim(r.cols[i])],
                                fk |-> r.stem \o "_id" ])]
       ELSE [base EXCEPT !.selectCols = columns.cols]

\* a comparison that always refers to its value as $1
CompareFirstPlaceholder(this, column, sqlOp, value) ==
  [this EXCEPT !.params = Append(this.params, value),
               !.wheres = Append(this.wheres, <<pgCol(column), sqlOp, Ph(1)>>)]

\* the shared body of eq/neq/gt/gte/lt/lte
Compare(this, column, sqlOp, value) ==
  LET ps == Append(this.params, value)
  IN [this EXCEPT !.params = ps,
                  !.wheres = Append(this.wheres, <<pgCol(column), sqlOp, Ph(Len(ps))>>)]

eq(this, column, value) == Compare(this, column, "=", value)
neq(this, column, value) == Compare(this, column, "!=", value)
gt(this, column, value) == Compare(this, column, ">", value)
gte(this, column, value) == Compare(this, column, ">=", value)
lt(this, column, value) == Compare(this, column, "<", value)
lte(this, column, value) == Compare(this, column, "<=", value)

\* not() compiling every operator but ('is', null) as an inequality
NotComparesAny(this, column, operator, value) ==
  IF operator = "is" /\ value = VNull
  THEN [this EXCEPT !.wheres = Append(this.wheres, <<pgCol(column), "IS NOT NULL">>)]
  ELSE Compare(this, column, "!=", value)

\* QueryBuilder.not
not(this, column, operator, value) ==
  IF operator = "is" /\ value = VNull
  THEN [this EXCEPT !.wheres = Append(this.wheres, <<pgCol(column), "IS NOT NULL">>)]
  ELSE IF operator = "eq"
  THEN Compare(this, column, "!=", value)
  ELSE this

\* QueryBuilder.is
is(this, column, value) ==
  IF value = VNull
  THEN [this EXCEPT !.wheres = Append(this.wheres, <<pgCol(column), "IS NULL">>)]
  ELSE Compare(this, column, "IS", value)

\* QueryBuilder.order: ascending is "omitted", "true" or "false"
order(this, column, ascending) ==
  LET dir == IF ascending = "false" THEN "DESC" ELSE "ASC"
  IN [this EXCEPT !.orderClauses = Append(this.orderClauses, <<pgCol(column), dir>>)]

\* QueryBuilder.limit
limit(this, n) == [this EXCEPT !.limitVal = Some(n)]

\* QueryBuilder.single
single(this) == [this EXCEPT !.singleResult = TRUE, !.limitVal = Some(1)]

\* Array.isArray(data) ? data : [data]
AsRows(data) == IF data.t = "array" THEN data.e ELSE <<data>>

\* QueryBuilder.insert
insert(this, data) ==
  [this EXCEPT !.operation = Some("insert"), !.insertData = Some(AsRows(data))]

\* update() starting the parameter list afresh
UpdateResetsParams(this, data) ==
  [this EXCEPT !.operation = Some("update"), !.updateData = Some(data),
               !.params = <<>>]

\* QueryBuilder.update
update(this, data) ==
  [this EXCEPT !.operation = Some("update"), !.updateData = Some(data)]

\* The onConflict option: None when omitted, else Some of the string's
\* comma-separated parts; the empty string is the one part Part("", "").
EmptyString == << Part("", "") >>

\* QueryBuilder.upsert
upsert(this, data, onConflict) ==
  [this EXCEPT !.operation = Some("upsert"),
               !.insertData = Some(AsRows(data)),
               !.upsertConflict =
                  IF IsNone(onConflict) \/ Get(onConflict) = EmptyString
                  THEN Some(<< Part("", "id") >>)
                  ELSE onConflict]

\* ---------------------------------------------------------- compilation
\* `${this._table}` in a template string: null prints as "null"
TableText(this) == IF IsNone(this.table) THEN "null" ELSE Get(this.table)

\* ` WHERE ${this._wheres.join(' AND ')}` when there are fragments
WhereToks(this) ==
  IF Len(this.wheres) > 0
  THEN <<"WHERE">> \o JoinToks(this.wheres, <<"AND">>)
  ELSE <<>>

\* _execSelect (without join) testing the limit for truthiness: no LIMIT
\* clause for limit(0)
SelectSqlTruthyLimit(this) ==
  <<"SELECT">>
    \o (IF this.selectCols = Star THEN <<"*">>
        ELSE JoinToks([i \in 1..Len(this.selectCols) |->
               <<Quoted(Trim(this.selectCols[i]))>>], <<",">>))
    \o <<"FROM", Quoted(TableText(this))>>
    \o WhereToks(this)
    \o (IF Len(this.orderClauses) > 0
        THEN <<"ORDER BY">> \o JoinToks(this.orderClauses, <<",">>)
        ELSE <<>>)
    \o (IF ~IsNone(this.limitVal) /\ Get(this.limitVal) # 0
        THEN <<"LIMIT", ToString(Get(this.limitVal))>>
        ELSE <<>>)

\* QueryBuilder._execSelect, the statement text (lines 273-289)
SelectSql(this) ==
  LET hasJoin == Len(this.joins) > 0
      tbl == Quoted(TableText(this))
      cols == this.selectCols
      head ==
        IF hasJoin
        THEN LET join == this.joins[1]
                 mainCols ==
                   IF cols = Star THEN << tbl \o ".*" >>
                   ELSE JoinToks([i \in 1..Len(cols) |->
                          << tbl \o "." \o Quoted(Trim(cols[i])) >>], <<",">>)
                 joinCols ==
                   JoinToks([i \in 1..Len(join.columns) |->
                     << Quoted(join.table) \o "." \o Quoted(join.columns[i]), "AS",
                        Quoted(join.table \o "_" \o join.columns[i]) >>], <<",">>)
             IN <<"SELECT">> \o mainCols \o <<",">> \o joinCols
                  \o <<"FROM", tbl, "LEFT JOIN", Quoted(join.table), "ON",
                       tbl \o "." \o Quoted(join.fk), "=",
                       Quoted(join.table) \o "." \o Quoted("id")>>
        ELSE <<"SELECT">>
               \o (IF cols = Star THEN <<"*">>
                   ELSE JoinToks([i \in 1..Len(cols) |-> <<Quoted(Trim(cols[i]))>>], <<",">>))
               \o <<"FROM", tbl>>
  IN head
       \o WhereToks(this)
       \o (IF Len(this.orderClauses) > 0
           THEN <<"ORDER BY">> \o JoinToks(this.orderClauses, <<",">>)
           ELSE <<>>)
       \o (IF ~IsNone(this.limitVal)
           THEN <<"LIMIT", ToString(Get(this.limitVal))>>
           ELSE <<>>)

\* QueryBuilder._execSelect, the COUNT statement text (line 313)
CountSql(this) ==
  <<"SELECT COUNT(*) FROM", Quoted(TableText(this))>> \o WhereToks(this)

\* the VALUES part numbering the placeholders of every row from $1
RowValuesRestart(rows) ==
  LET keys == Keys(rows[1])
      K == Len(keys)
  IN [ keys |-> keys,
       values |-> [n \in 1..(Len(rows) * K) |->
                     pgVal(Prop(rows[((n - 1) \div K) + 1], keys[((n - 1) % K) + 1]))],
       tuples |-> JoinToks([r \in 1..Len(rows) |->
                     <<"(">> \o JoinToks([k \in 1..K |-> <<Ph(k)>>], <<",">>)
                       \o <<")">>], <<",">>) ]

\* The VALUES part of _execInsert/_execUpsert (lines 324-335, 365-376):
\* one tuple per row over the first row's keys, the values list in row-major
\* order.
RowValues(rows) ==
  LET keys == Keys(rows[1])
      K == Len(keys)
  IN [ keys |-> keys,
       values |-> [n \in 1..(Len(rows) * K) |->
                     pgVal(Prop(rows[((n - 1) \div K) + 1], keys[((n - 1) % K) + 1]))],
       tuples |-> JoinToks([r \in 1..Len(rows) |->
                     <<"(">> \o JoinToks([k \in 1..K |-> <<Ph((r - 1) * K + k)>>], <<",">>)
                       \o <<")">>], <<",">>) ]

\* `(${quotedKeys})`
KeyList(keys) ==
  <<"(">> \o JoinToks([i \in 1..Len(keys) |-> <<Quoted(keys[i])>>], <<",">>) \o <<")">>

\* QueryBuilder._execInsert, statement and values (lines 324-338)
InsertStmt(this) ==
  LET rv == RowValues(Get(this.insertData))
  IN [ sql |-> <<"INSERT INTO", Quoted(TableText(this))>> \o KeyList(rv.keys)
                 \o <<"VALUES">> \o rv.tuples
                 \o (IF this.returnData THEN <<"RETURNING *">> ELSE <<>>),
       params |-> rv.values ]

\* this._upsertConflict.split(',') without the trim()
ConflictNamesUntrimmed(this) ==
  LET parts == Get(this.upsertConflict)
  IN [i \in 1..Len(parts) |-> parts[i].pad \o parts[i].name]

\* this._upsertConflict.split(',').map(c => c.trim())
ConflictNames(this) ==
  LET parts == Get(this.upsertConflict)
  IN [i \in 1..Len(parts) |-> Trim(parts[i])]

\* keys.filter(k => !conflict.includes(k))
RECURSIVE FilterOut(_, _)
FilterOut(keys, excluded) ==
  IF Len(keys) = 0 THEN <<>>
  ELSE IF \E i \in 1..Len(excluded) : excluded[i] = keys[1]
  THEN FilterOut(Tail(keys), excluded)
  ELSE <<keys[1]>> \o FilterOut(Tail(keys), excluded)

\* QueryBuilder._execUpsert, statement and values (lines 365-385)
UpsertStmt(this) ==
  LET rv == RowValues(Get(this.insertData))
      names == ConflictNames(this)
      upd == FilterOut(rv.keys, names)
  IN [ sql |-> <<"INSERT INTO", Quoted(TableText(this))>> \o KeyList(rv.keys)
                 \o <<"VALUES">> \o rv.tuples
                 \o <<"ON CONFLICT">> \o KeyList(names)
                 \o <<"DO UPDATE SET">>
                 \o JoinToks([i \in 1..Len(upd) |->
                       <<Quoted(upd[i]), "=", "EXCLUDED." \o Quoted(upd[i])>>], <<",">>)
                 \o <<"RETURNING *">>,
       params |-> rv.values ]

\* QueryBuilder._execUpdate before the await (lines 346-355): the SET values
\* are pushed onto this._params, and the statement numbers them from there.
UpdateParams(this) ==
  LET data == Get(this.updateData)
  IN this.params \o [i \in 1..Len(data.e) |-> pgVal(data.e[i].v)]

\* _execUpdate ending the statement with the chain's LIMIT
UpdateSqlWithLimit(this) ==
  LET keys == Keys(Get(this.updateData))
      base == Len(this.params)
  IN <<"UPDATE", Quoted(TableText(this)), "SET">>
       \o JoinToks([i \in 1..Len(keys) |-> <<Quoted(keys[i]), "=", Ph(base + i)>>], <<",">>)
       \o WhereToks(this)
       \o (IF ~IsNone(this.limitVal)
           THEN <<"LIMIT", ToString(Get(this.limitVal))>> ELSE <<>>)
       \o (IF this.returnData THEN <<"RETURNING *">> ELSE <<>>)

\* _execUpdate numbering the SET placeholders from $1
UpdateSqlFromOne(this) ==
  LET keys == Keys(Get(this.updateData))
  IN <<"UPDATE", Quoted(TableText(this)), "SET">>
       \o JoinToks([i \in 1..Len(keys) |-> <<Quoted(keys[i]), "=", Ph(i)>>], <<",">>)
       \o WhereToks(this)
       \o (IF this.returnData THEN <<"RETURNING *">> ELSE <<>>)

UpdateSql(this) ==
  LET keys == Keys(Get(this.updateData))
      base == Len(this.params)
  IN <<"UPDATE", Quoted(TableText(this)), "SET">>
       \o JoinToks([i \in 1..Len(keys) |-> <<Quoted(keys[i]), "=", Ph(base + i)>>], <<",">>)
       \o WhereToks(this)
       \o (IF this.returnData THEN <<"RETURNING *">> ELSE <<>>)

\* ------------------------------------------------------ result shaping
\* obj[key] = val: in place when the key exists, appended otherwise
SetProp(obj, key, val) ==
  IF \E i \in 1..Len(obj.e) : obj.e[i].k = key
  THEN VObj([i \in 1..Len(obj.e) |->
              IF obj.e[i].k = key THEN Entry(key, val) ELSE obj.e[i]])
  ELSE VObj(Append(obj.e, Entry(key, val)))

\* delete obj[key]
RECURSIVE DeleteEntries(_, _)
DeleteEntries(entries, key) ==
  IF Len(entries) = 0 THEN <<>>
  ELSE IF entries[1].k = key THEN DeleteEntries(Tail(entries), key)
  ELSE <<entries[1]>> \o DeleteEntries(Tail(entries), key)

DeleteProp(obj, key) == VObj(DeleteEntries(obj.e, key))

\* join.columns.forEach(c => { nested[c] = row[alias]; delete main[alias] })
\* after the first n columns: the pair of nested and main
RECURSIVE Lift(_, _, _)
Lift(row, join, n) ==
  IF n = 0 THEN [nested |-> VObj(<<>>), main |-> row]
  ELSE LET prev == Lift(row, join, n - 1)
           c == join.columns[n]
           alias == join.table \o "_" \o c
       IN [ nested |-> SetProp(prev.nested, c, Prop(row, alias)),
            main |-> DeleteProp(prev.main, alias) ]

\* the row mapper leaving the aliased columns in the row
ReshapeKeepsFlat(row, join) ==
  SetProp(row, join.table, Lift(row, join, Len(join.columns)).nested)

\* the row mapper of _execSelect (lines 296-305)
ReshapeRow(row, join) ==
  LET l == Lift(row, join, Len(join.columns))
  IN SetProp(l.main, join.table, l.nested)

\* rows.map(...) when the select had a join (lines 293-306)
Reshape(rows, hasJoin, this) ==
  IF hasJoin
  THEN VArr([i \in 1..Len(rows.e) |-> ReshapeRow(rows.e[i], this.joins[1])])
  ELSE rows

\* rows[0] || null (a row is an object, hence truthy)
FirstOrNull(rows) == IF Len(rows.e) > 0 THEN rows.e[1] ELSE VNull

\* parseInt(text) of a decimal numeral; NaN for anything else
ParseInt(v) ==
  IF v.t = "string" /\ \E n \in 0..CountMax : v.s = ToString(n)
  THEN VNum(CHOOSE n \in 0..CountMax : v.s = ToString(n))
  ELSE VNaN

\* ------------------------------------------------------------ execution
\* How a step of an async function ends: it returns a value, throws, or
\* awaits the connector.
Return(v) == [kind |-> "return", value |-> v]
Throw(e) == [kind |-> "throw", value |-> e]

\* A response of the connector to one statement: it rejects with an error
\* or resolves with { rows }.
Failure(err) == [ok |-> FALSE, err |-> err, rows |-> VArr(<<>>)]
Result(rows) == [ok |-> TRUE, err |-> VNull, rows |-> rows]

\* _execSelect ignoring single(): data is always the row sequence
SelectDataAllRows(this, hasJoin, rows) ==
  [data |-> Reshape(rows, hasJoin, this), error |-> VNull]

\* _execSelect after the main statement's rows arrived (lines 293-309)
SelectData(this, hasJoin, rows) ==
  LET shaped == Reshape(rows, hasJoin, this)
  IN [ data |-> IF this.singleResult THEN FirstOrNull(shaped) ELSE shaped,
       error |-> IF this.singleResult /\ Len(shaped.e) = 0
                 THEN VObj(<<Entry("message", VStr("Row not found"))>>)
                 ELSE VNull ]

\* _execSelect's return without a count (lines 311-318)
SelectReturn(d) == Return([data |-> d.data, error |-> d.error, count |-> VNull])

\* _execSelect after the COUNT statement's rows arrived (lines 315-318)
CountReturn(d, rows) ==
  IF Len(rows.e) = 0
  THEN Throw(VErr("TypeError: Cannot read properties of undefined"))
  ELSE Return([data |-> d.data, error |-> d.error,
               count |-> ParseInt(Prop(rows.e[1], "count"))])

\* _execInsert / _execUpdate handing the rows back whether asked or not
MutationReturnsRows(this, rows) ==
  Return([ data |-> IF this.singleResult THEN FirstOrNull(rows) ELSE rows,
           error |-> VNull ])

\* _execInsert / _execUpdate after the await (lines 341-342, 358-359)
MutationReturn(this, rows) ==
  Return([ data |-> IF this.returnData
                    THEN (IF this.singleResult THEN FirstOrNull(rows) ELSE rows)
                    ELSE VNull,
           error |-> VNull ])

\* _execUpsert after the await (lines 388-389)
UpsertReturn(this, rows) ==
  Return([ data |-> IF this.singleResult THEN FirstOrNull(rows) ELSE rows,
           error |-> VNull ])

\* the empty-rows shortcut of _execInsert/_execUpsert (lines 322, 363)
EmptyReturn == Return([data |-> VNull, error |-> VNull])

\* _execute falling through without an error when no operation was set
NoOperationSilent == Return([data |-> VNull, error |-> VNull])

\* _execute when no operation was set (line 266)
NoOperation == Return([data |-> VNull, error |-> VErr("No operation specified")])

\* _execute without its try/catch
ExecuteNoCatch(completion) == completion

\* the catch of _execute (lines 267-269)
execute(completion) ==
  IF completion.kind = "throw"
  THEN Return([data |-> VNull, error |-> completion.value, count |-> VNull])
  ELSE completion

\* the promise of _execute(), as then()/catch() hand it on (lines 393-399)
Settled(completion) ==
  [ state |-> IF completion.kind = "return" THEN "fulfilled" ELSE "rejected",
    value |-> completion.value ]

\* ---------------------------------------------------------------- state
\* qb[0] is the exported db; qb[1..made] are the builders from() returned.
\* steps[b] counts the chain-method calls and the consumptions made on b.
\* execs[b] holds one
\* record per consumption of b (then/catch), in the order they started:
\*   pc       "main" | "count" while a statement is outstanding, "settled"
\*   kind     the operation _execute dispatched on
\*   hasJoin  the local of _execSelect computed before the first await
\*   local    the locals data and error of _execSelect kept across the
\*            COUNT await
\*   stmts    the statements this execution handed to the connector
\*   got      the connector's responses to them
\*   out      None, or Some of the settled promise
\*   chain    the builder as it was when the consumption started
\*   filters  the filter calls made on the builder before it started
\* filters[b] lists the filter-method calls made on b, in call order.
\* hist[b] is the record of what was done to b, kept by the interleaved
\* runs (its calls, its consumptions and the connector's answers to it) and
\* by the runs that record their calls (the calls with their arguments, and
\* the consumptions). In the runs that load the module, hist[0] holds the
\* record of the load.
VARIABLES qb, made, steps, execs, filters, hist

vars == <<qb, made, steps, execs, filters, hist>>

Ids == 0..MaxChains

NoLocal == [data |-> VNull, error |-> VNull]

Stmt(sql, params) == [sql |-> sql, params |-> params]

Awaiting(pc, kind, hasJoin, local, stmts) ==
  [pc |-> pc, kind |-> kind, hasJoin |-> hasJoin, local |-> local,
   stmts |-> stmts, got |-> <<>>, out |-> None,
   chain |-> NewBuilder, filters |-> <<>>]

\* The promise settles: _execute's catch, then the promise then()/catch()
\* returns.
Finished(ex, completion) ==
  [ex EXCEPT !.pc = "settled", !.out = Some(Settled(execute(completion)))]

Init ==
  /\ qb = [b \in Ids |-> NewBuilder]
  /\ made = 0
  /\ steps = [b \in Ids |-> 0]
  /\ execs = [b \in Ids |-> <<>>]
  /\ filters = [b \in Ids |-> <<>>]
  /\ hist = [b \in Ids |-> <<>>]

\* ----------------------------------------------------------- the inputs
ColId == <<"id">>
ColName == <<"name">>

RowA == VObj(<<Entry("name", VStr("A"))>>)
RowB == VObj(<<Entry("name", VStr("B"))>>)
RowJane == VObj(<<Entry("id", VNum(1)), Entry("name", VStr("Jane"))>>)

Orders == Some(Relation("order", "s", <<Part("", "total")>>))

SelectAll == [columns |-> Columns(Star, None), count |-> "none"]
SelectArgs ==
  { SelectAll,
    [columns |-> Columns(Star, None), count |-> "exact"],
    [columns |-> Columns(Star, Orders), count |-> "none"] }

CompareArgs == { [column |-> ColId, value |-> VNum(1)] }
IsArgs == { [column |-> ColName, value |-> VNull],
            [column |-> ColName, value |-> VBool(TRUE)] }
NotArgs == { [column |-> ColName, operator |-> "is", value |-> VNull],
             [column |-> ColId, operator |-> "eq", value |-> VNum(1)],
             [column |-> ColId, operator |-> "gt", value |-> VNum(1)] }
OrderArgs == { [column |-> ColName, ascending |-> "omitted"] }
LimitArgs == {10}
InsertArgs == { VArr(<<>>), VArr(<<RowA, RowB>>) }
RowName == VObj(<<Entry("name", VStr("Jane"))>>)
UpdateArgs == { RowName,
                VObj(<<Entry("name", VStr("Jane")), Entry("tags", VArr(<<>>))>>) }
UpsertArgs == { [data |-> RowJane, onConflict |-> None] }

\* what the connector may answer
Row1 == VObj(<<Entry("id", VNum(1)), Entry("orders_total", VNum(5))>>)
Row2 == VObj(<<Entry("id", VNum(2)), Entry("orders_total", VNum(7))>>)
RowSets == { VArr(<<>>), VArr(<<Row1>>), VArr(<<Row1, Row2>>) }
CountRowSets == { VArr(<<VObj(<<Entry("count", VStr("2"))>>)>>) }
Errors == { VErr("connection terminated") }

Responses(pc) ==
  { Failure(e) : e \in Errors }
    \cup { Result(r) : r \in (IF pc = "count" THEN CountRowSets ELSE RowSets) }

\* -------------------------------------------------------------- actions

\* r.from(t), r being db or a chain
From(r, t, maxChains) ==
  /\ made < maxChains
  /\ r <= made
  /\ LET f == from(qb[r], t)
     IN qb' = [qb EXCEPT ![r] = f.receiver, ![made + 1] = f.builder]
  /\ made' = made + 1
  /\ UNCHANGED <<steps, execs, filters>>

\* a chain method that hands the chain's SELECT to the connector at once
RanAndExecutes(b, this) ==
  /\ qb' = [qb EXCEPT ![b] = this]
  /\ steps' = [steps EXCEPT ![b] = @ + 1]
  /\ execs' = [execs EXCEPT ![b] =
        Append(@, Awaiting("main", "select", FALSE, NoLocal,
                           <<Stmt(SelectSql(this), this.params)>>))]
  /\ UNCHANGED made

\* a chain method ran on b and left it as this
Ran(b, this) ==
  /\ qb' = [qb EXCEPT ![b] = this]
  /\ steps' = [steps EXCEPT ![b] = @ + 1]
  /\ UNCHANGED <<made, execs>>

Called(b, this) == Ran(b, this) /\ UNCHANGED filters

\* a filter method ran on b
FilterCall(method, operator, value) ==
  [method |-> method, operator |-> operator, value |-> value]

Filtered(b, this, method, operator, value) ==
  /\ Ran(b, this)
  /\ filters' = [filters EXCEPT ![b] = Append(@, FilterCall(method, operator, value))]

Select(b, args) == \E a \in args : Called(b, select(qb[b], a.columns, a.count))
Eq(b, args) ==
  \E a \in args : Filtered(b, eq(qb[b], a.column, a.value), "eq", "", a.value)
Neq(b, args) ==
  \E a \in args : Filtered(b, neq(qb[b], a.column, a.value), "neq", "", a.value)
Gt(b, args) ==
  \E a \in args : Filtered(b, gt(qb[b], a.column, a.value), "gt", "", a.value)
Gte(b, args) ==
  \E a \in args : Filtered(b, gte(qb[b], a.column, a.value), "gte", "", a.value)
Lt(b, args) ==
  \E a \in args : Filtered(b, lt(qb[b], a.column, a.value), "lt", "", a.value)
Lte(b, args) ==
  \E a \in args : Filtered(b, lte(qb[b], a.column, a.value), "lte", "", a.value)
Is(b, args) ==
  \E a \in args : Filtered(b, is(qb[b], a.column, a.value), "is", "", a.value)
Not(b, args) ==
  \E a \in args :
    Filtered(b, not(qb[b], a.column, a.operator, a.value), "not", a.operator, a.value)
Order(b, args) == \E a \in args : Called(b, order(qb[b], a.column, a.ascending))
Limit(b, args) == \E n \in args : Called(b, limit(qb[b], n))
Single(b) == Called(b, single(qb[b]))
Insert(b, args) == \E d \in args : Called(b, insert(qb[b], d))
Update(b, args) == \E d \in args : Called(b, update(qb[b], d))
Upsert(b, args) == \E a \in args : Called(b, upsert(qb[b], a.data, a.onConflict))

\* _execute up to its first await or its return (lines 260-266 and the
\* synchronous part of the _exec method it dispatches to): the builder as
\* this leaves it, and the execution record.
Begin(this) ==
  LET rows == Get(this.insertData)
      start(kind, hasJoin, stmt) == Awaiting("main", kind, hasJoin, NoLocal, <<stmt>>)
      done(kind, completion) ==
        Finished(Awaiting("settled", kind, FALSE, NoLocal, <<>>), completion)
  IN CASE this.operation = Some("select") ->
            [ this |-> this,
              ex |-> start("select", Len(this.joins) > 0,
                           Stmt(SelectSql(this), this.params)) ]
       [] this.operation = Some("insert") ->
            [ this |-> this,
              ex |-> IF Len(rows) = 0 THEN done("insert", EmptyReturn)
                     ELSE LET st == InsertStmt(this)
                          IN start("insert", FALSE, Stmt(st.sql, st.params)) ]
       [] this.operation = Some("update") ->
            [ this |-> [this EXCEPT !.params = UpdateParams(this)],
              ex |-> start("update", FALSE,
                           Stmt(UpdateSql(this), UpdateParams(this))) ]
       [] this.operation = Some("upsert") ->
            [ this |-> this,
              ex |-> IF Len(rows) = 0 THEN done("upsert", EmptyReturn)
                     ELSE LET st == UpsertStmt(this)
                          IN start("upsert", FALSE, Stmt(st.sql, st.params)) ]
       [] OTHER ->
            [ this |-> this, ex |-> done("none", NoOperation) ]

\* the execution ex of builder this resumes with the connector's response
Resume(this, ex0, resp) ==
  LET ex == [ex0 EXCEPT !.got = Append(@, resp)]
  IN IF ~resp.ok THEN Finished(ex, Throw(resp.err))
     ELSE CASE ex.pc = "count" -> Finished(ex, CountReturn(ex.local, resp.rows))
            [] ex.pc = "main" /\ ex.kind = "select" ->
                 LET d == SelectData(this, ex.hasJoin, resp.rows)
                 IN IF this.countExact
                    THEN [ex EXCEPT !.pc = "count", !.local = d,
                                    !.stmts = Append(@, Stmt(CountSql(this), this.params))]
                    ELSE Finished(ex, SelectReturn(d))
            [] ex.pc = "main" /\ ex.kind = "upsert" ->
                 Finished(ex, UpsertReturn(this, resp.rows))
            [] OTHER -> Finished(ex, MutationReturn(this, resp.rows))

\* a consumption that hands back the chain's first execution when there is
\* one, instead of starting another
ConsumeMemoized(b) ==
  /\ LET r == Begin(qb[b])
     IN /\ qb' = [qb EXCEPT ![b] = r.this]
        /\ execs' = [execs EXCEPT ![b] =
              IF Len(@) > 0 THEN Append(@, @[1])
              ELSE Append(@, [r.ex EXCEPT !.chain = qb[b], !.filters = filters[b]])]
  /\ steps' = [steps EXCEPT ![b] = @ + 1]
  /\ UNCHANGED <<made, filters>>

\* a consumption of b starts
Consume(b) ==
  /\ LET r == Begin(qb[b])
     IN /\ qb' = [qb EXCEPT ![b] = r.this]
        /\ execs' = [execs EXCEPT ![b] =
              Append(@, [r.ex EXCEPT !.chain = qb[b], !.filters = filters[b]])]
  /\ steps' = [steps EXCEPT ![b] = @ + 1]
  /\ UNCHANGED <<made, filters>>

\* QueryBuilder.then: await chain, chain.then(f, g)
Then(b) == Consume(b)

\* QueryBuilder.catch: chain.catch(f)
Catch(b) == Consume(b)

\* the connector answers, with resp, the statement that execution i of b
\* is awaiting
RespondWith(b, i, resp) ==
  /\ execs[b][i].pc \in {"main", "count"}
  /\ resp \in Responses(execs[b][i].pc)
  /\ execs' = [execs EXCEPT ![b][i] = Resume(qb[b], execs[b][i], resp)]
  /\ UNCHANGED <<qb, made, steps, filters>>

FewResponses == { Failure(VErr("connection terminated")), Result(VArr(<<Row1>>)) }
AllResponses == Responses("main") \cup Responses("count")

Respond(b, responses) ==
  \E i \in 1..Len(execs[b]), resp \in responses : RespondWith(b, i, resp)

ChainIds == 1..MaxChains

\* a step on chain b within the bound of the one-chain runs
Solo(b) == b <= made /\ steps[b] < MaxSteps /\ UNCHANGED hist

\* One chain built from db, with every operation and every shape of
\* result, consumed, and answered by the connector in every way.
Next ==
  \/ From(0, "users", 1) /\ UNCHANGED hist
  \/ \E b \in ChainIds :
       \/ Solo(b) /\ Select(b, SelectArgs)
       \/ Solo(b) /\ Eq(b, CompareArgs)
       \/ Solo(b) /\ Limit(b, LimitArgs)
       \/ Solo(b) /\ Single(b)
       \/ Solo(b) /\ Insert(b, InsertArgs)
       \/ Solo(b) /\ Update(b, {RowName})
       \/ Solo(b) /\ Upsert(b, UpsertArgs)
       \/ Solo(b) /\ Then(b)
       \/ Solo(b) /\ Catch(b)
       \/ b <= made /\ Respond(b, AllResponses) /\ UNCHANGED hist

Spec == Init /\ [][Next]_vars

\* One chain built from db with every filter method and an update,
\* consumed, and answered by the connector with an error or one row.
NextFilter ==
  \/ From(0, "users", 1) /\ UNCHANGED hist
  \/ \E b \in ChainIds :
       \/ Solo(b) /\ Eq(b, CompareArgs)
       \/ Solo(b) /\ Neq(b, CompareArgs)
       \/ Solo(b) /\ Gt(b, CompareArgs)
       \/ Solo(b) /\ Gte(b, CompareArgs)
       \/ Solo(b) /\ Lt(b, CompareArgs)
       \/ Solo(b) /\ Lte(b, CompareArgs)
       \/ Solo(b) /\ Is(b, IsArgs)
       \/ Solo(b) /\ Not(b, NotArgs)
       \/ Solo(b) /\ Select(b, {SelectAll})
       \/ Solo(b) /\ Update(b, UpdateArgs)
       \/ Solo(b) /\ Then(b)
       \/ b <= made /\ Respond(b, FewResponses) /\ UNCHANGED hist

SpecFilter == Init /\ [][NextFilter]_vars

\* ------------------------------------------------- interleaved chains
\* An entry of hist: a chain method (op names it; each has one argument
\* here), "from" for the call that made the chain, "spawn" for a from()
\* called on it, "then" for a consumption, "respond" for the connector's
\* answer resp to the chain's i-th execution.
Event(op, by, table, i, resp) ==
  [op |-> op, by |-> by, table |-> table, i |-> i, resp |-> resp]
Did(op) == Event(op, 0, "", 0, Failure(VNull))

Log(b, ev) == hist' = [hist EXCEPT ![b] = Append(@, ev)]

\* the calls, consumptions and answers in h
Acts(h) == Cardinality({ k \in 1..Len(h) : h[k].op \notin {"from", "spawn"} })

RECURSIVE SumTo(_, _)
SumTo(f, n) == IF n = 0 THEN 0 ELSE Acts(f[n]) + SumTo(f, n - 1)

\* a step on chain b within the bound of the interleaved runs
Pair(b) == b <= made /\ SumTo(hist, MaxChains) < PairSteps

PairTables == {"orders"}
PairSelect == [columns |-> Columns(Star, None), count |-> "exact"]
PairResponses ==
  { Result(VArr(<<Row1>>)), Result(VArr(<<VObj(<<Entry("count", VStr("2"))>>)>>)) }

\* Two chains, each made by from() on db or on the other chain, built and
\* consumed with their calls and their round trips interleaved in every
\* order.
NextPair ==
  \/ \E r \in Ids, t \in PairTables :
       /\ From(r, t, 2)
       /\ hist' = [hist EXCEPT ![made + 1] = <<Event("from", r, t, 0, Failure(VNull))>>,
                               ![r] = IF r = 0 THEN @ ELSE Append(@, Did("spawn"))]
  \/ \E b \in ChainIds :
       \/ Pair(b) /\ Select(b, {PairSelect}) /\ Log(b, Did("select"))
       \/ Pair(b) /\ Update(b, {RowName}) /\ Log(b, Did("update"))
       \/ Pair(b) /\ Then(b) /\ Log(b, Did("then"))
       \/ \E i \in 1..MaxSteps, resp \in PairResponses :
            /\ Pair(b)
            /\ i <= Len(execs[b])
            /\ RespondWith(b, i, resp)
            /\ Log(b, Event("respond", 0, "", i, resp))

SpecPair == Init /\ [][NextPair]_vars

\* What hist says of one chain, run alone: the builder, its executions and
\* its filter calls after the events h, the first of which is its from().
RECURSIVE Alone(_)
Alone(h) ==
  IF Len(h) = 1
  THEN [ this |-> from(NewBuilder, h[1].table).builder,
         execs |-> <<>>, filters |-> <<>> ]
  ELSE LET prev == Alone(SubSeq(h, 1, Len(h) - 1))
           ev == h[Len(h)]
       IN CASE ev.op = "select" ->
                 [prev EXCEPT !.this = select(@, PairSelect.columns, PairSelect.count)]
            [] ev.op = "update" ->
                 [prev EXCEPT !.this = update(@, RowName)]
            [] ev.op = "then" ->
                 LET r == Begin(prev.this)
                 IN [prev EXCEPT
                       !.this = r.this,
                       !.execs = Append(@, [r.ex EXCEPT !.chain = prev.this,
                                                        !.filters = prev.filters])]
            [] ev.op = "respond" ->
                 [prev EXCEPT !.execs[ev.i] = Resume(prev.this, @, ev.resp)]
            [] OTHER -> prev

\* ---------------------------------------------------- recorded calls
\* An entry of hist in the runs that record their calls: the method and
\* its arguments; "then" for a consumption.
CallOf(op, args) == [op |-> op, args |-> args]
NoArgs == [none |-> TRUE]

\* a step on chain b within a bound on its calls and consumptions
Step(b, bound) == b <= made /\ steps[b] < bound

\* ------------------------------------------------------------- upserts
RowEmail ==
  VObj(<<Entry("email", VStr("j@x")), Entry("name", VStr("Jane")), Entry("id", VNum(1))>>)
RowIdOnly == VObj(<<Entry("id", VNum(1))>>)
UpsertRows == { RowJane, RowEmail, RowIdOnly, VArr(<<RowEmail, RowJane>>) }

\* onConflict: omitted, '', 'id', 'email', 'name', 'email,id', 'email, id'
ConflictOptions ==
  { None, Some(EmptyString),
    Some(<< Part("", "id") >>), Some(<< Part("", "email") >>), Some(<< Part("", "name") >>),
    Some(<< Part("", "email"), Part("", "id") >>),
    Some(<< Part("", "email"), Part(" ", "id") >>) }

ConflictArgs == { [data |-> d, onConflict |-> c] : d \in UpsertRows, c \in ConflictOptions }

\* One chain built from db with upserts of every row shape and conflict
\* target, consumed, and answered by the connector.
NextUpsert ==
  \/ From(0, "users", 1) /\ UNCHANGED hist
  \/ \E b \in ChainIds :
       \/ \E a \in ConflictArgs :
            Step(b, UpsertSteps) /\ Upsert(b, {a}) /\ Log(b, CallOf("upsert", a))
       \/ Step(b, UpsertSteps) /\ Then(b) /\ Log(b, CallOf("then", NoArgs))
       \/ b <= made /\ Respond(b, FewResponses) /\ UNCHANGED hist

SpecUpsert == Init /\ [][NextUpsert]_vars

\* ------------------------------------------------- column references
\* 'metadata->plan'
ColMeta == <<"metadata", "plan">>
Columns2 == { ColName, ColMeta }

ColumnCompareArgs == { [column |-> c, value |-> VNum(1)] : c \in Columns2 }
ColumnIsArgs == { [column |-> c, value |-> v] : c \in Columns2, v \in {VNull, VBool(TRUE), VUndef} }
ColumnNotArgs ==
  { [column |-> c, operator |-> o.operator, value |-> o.value] :
      c \in Columns2,
      o \in { [operator |-> "is", value |-> VNull],
              [operator |-> "is", value |-> VBool(TRUE)],
              [operator |-> "eq", value |-> VNum(1)],
              [operator |-> "eq", value |-> VNull],
              [operator |-> "gt", value |-> VNum(1)] } }
ColumnOrderArgs ==
  { [column |-> c, ascending |-> a] : c \in Columns2, a \in {"omitted", "true", "false"} }

\* One chain built from db with every filter method and order(), on a
\* plain column and on a JSON path.
NextColumn ==
  \/ From(0, "users", 1) /\ UNCHANGED hist
  \/ \E b \in ChainIds :
       \/ \E a \in ColumnCompareArgs :
            Step(b, ColumnSteps) /\ Eq(b, {a}) /\ Log(b, CallOf("eq", a))
       \/ \E a \in ColumnCompareArgs :
            Step(b, ColumnSteps) /\ Neq(b, {a}) /\ Log(b, CallOf("neq", a))
       \/ \E a \in ColumnCompareArgs :
            Step(b, ColumnSteps) /\ Gt(b, {a}) /\ Log(b, CallOf("gt", a))
       \/ \E a \in ColumnCompareArgs :
            Step(b, ColumnSteps) /\ Gte(b, {a}) /\ Log(b, CallOf("gte", a))
       \/ \E a \in ColumnCompareArgs :
            Step(b, ColumnSteps) /\ Lt(b, {a}) /\ Log(b, CallOf("lt", a))
       \/ \E a \in ColumnCompareArgs :
            Step(b, ColumnSteps) /\ Lte(b, {a}) /\ Log(b, CallOf("lte", a))
       \/ \E a \in ColumnIsArgs :
            Step(b, ColumnSteps) /\ Is(b, {a}) /\ Log(b, CallOf("is", a))
       \/ \E a \in ColumnNotArgs :
            Step(b, ColumnSteps) /\ Not(b, {a}) /\ Log(b, CallOf("not", a))
       \/ \E a \in ColumnOrderArgs :
            Step(b, ColumnSteps) /\ Order(b, {a}) /\ Log(b, CallOf("order", a))

SpecColumn == Init /\ [][NextColumn]_vars

\* ------------------------------------------------------------- selects
\* 'orders(total, status)' and 'products(title)'
OrdersTwo == Some(Relation("order", "s", << Part("", "total"), Part(" ", "status") >>))
Products == Some(Relation("product", "s", << Part("", "title") >>))

\* '*', '*' with an exact count, '*, orders(total, status)' and
\* 'id, products(title)'
JoinSelectArgs ==
  { [columns |-> Columns(Star, None), count |-> "none"],
    [columns |-> Columns(Star, None), count |-> "exact"],
    [columns |-> Columns(Star, OrdersTwo), count |-> "none"],
    [columns |-> Columns(<< Part("", "id") >>, Products), count |-> "none"] }

\* rows of users left-joined with orders (the second user has no order) or
\* with products
JoinRow1 ==
  VObj(<< Entry("id", VNum(1)), Entry("orders_total", VNum(5)),
          Entry("name", VStr("A")), Entry("orders_status", VStr("paid")) >>)
JoinRow2 ==
  VObj(<< Entry("id", VNum(2)), Entry("orders_total", VNull),
          Entry("name", VStr("B")), Entry("orders_status", VNull) >>)
JoinRow3 == VObj(<< Entry("id", VNum(3)), Entry("products_title", VStr("T")) >>)
JoinResponses ==
  { Result(VArr(<<>>)), Result(VArr(<<JoinRow1, JoinRow2>>)), Result(VArr(<<JoinRow3>>)) }

\* the connector answers, with any response, the statement that execution
\* i of b is awaiting
Answer(b, i, resp) ==
  /\ execs[b][i].pc \in {"main", "count"}
  /\ execs' = [execs EXCEPT ![b][i] = Resume(qb[b], execs[b][i], resp)]
  /\ UNCHANGED <<qb, made, steps, filters>>

\* One chain built from db with selects that embed a relation or do not,
\* an update, a filter and single(), consumed, and answered with joined
\* rows.
NextSelect ==
  \/ From(0, "users", 1) /\ UNCHANGED hist
  \/ \E b \in ChainIds :
       \/ \E a \in JoinSelectArgs :
            Step(b, SelectSteps) /\ Select(b, {a}) /\ Log(b, CallOf("select", a))
       \/ Step(b, SelectSteps) /\ Update(b, {RowName}) /\ Log(b, CallOf("update", NoArgs))
       \/ Step(b, SelectSteps) /\ Eq(b, CompareArgs) /\ Log(b, CallOf("eq", NoArgs))
       \/ Step(b, SelectSteps) /\ Single(b) /\ Log(b, CallOf("single", NoArgs))
       \/ Step(b, SelectSteps) /\ Then(b) /\ Log(b, CallOf("then", NoArgs))
       \/ \E i \in 1..SelectSteps, resp \in JoinResponses :
            b <= made /\ i <= Len(execs[b]) /\ Answer(b, i, resp) /\ UNCHANGED hist

SpecSelect == Init /\ [][NextSelect]_vars

\* ------------------------------------------------ building and consuming
\* select('*', { count: 'exact' })
LazyExact == [columns |-> Columns(Star, None), count |-> "exact"]

\* One chain built from db with every chain method, each call recorded,
\* consumed with then() or catch(), and answered by the connector.
NextLazy ==
  \/ /\ From(0, "users", 1)
     /\ hist' = [hist EXCEPT ![made + 1] = <<CallOf("from", NoArgs)>>]
  \/ \E b \in ChainIds :
       \/ Step(b, LazySteps) /\ Select(b, {LazyExact}) /\ Log(b, CallOf("select", NoArgs))
       \/ Step(b, LazySteps) /\ Eq(b, CompareArgs) /\ Log(b, CallOf("eq", NoArgs))
       \/ Step(b, LazySteps) /\ Neq(b, CompareArgs) /\ Log(b, CallOf("neq", NoArgs))
       \/ Step(b, LazySteps) /\ Gt(b, CompareArgs) /\ Log(b, CallOf("gt", NoArgs))
       \/ Step(b, LazySteps) /\ Gte(b, CompareArgs) /\ Log(b, CallOf("gte", NoArgs))
       \/ Step(b, LazySteps) /\ Lt(b, CompareArgs) /\ Log(b, CallOf("lt", NoArgs))
       \/ Step(b, LazySteps) /\ Lte(b, CompareArgs) /\ Log(b, CallOf("lte", NoArgs))
       \/ Step(b, LazySteps) /\ Is(b, IsArgs) /\ Log(b, CallOf("is", NoArgs))
       \/ Step(b, LazySteps) /\ Not(b, NotArgs) /\ Log(b, CallOf("not", NoArgs))
       \/ Step(b, LazySteps) /\ Order(b, OrderArgs) /\ Log(b, CallOf("order", NoArgs))
       \/ Step(b, LazySteps) /\ Limit(b, LimitArgs) /\ Log(b, CallOf("limit", NoArgs))
       \/ Step(b, LazySteps) /\ Single(b) /\ Log(b, CallOf("single", NoArgs))
       \/ Step(b, LazySteps) /\ Insert(b, InsertArgs) /\ Log(b, CallOf("insert", NoArgs))
       \/ Step(b, LazySteps) /\ Update(b, {RowName}) /\ Log(b, CallOf("update", NoArgs))
       \/ Step(b, LazySteps) /\ Upsert(b, UpsertArgs) /\ Log(b, CallOf("upsert", NoArgs))
       \/ Step(b, LazySteps) /\ Then(b) /\ Log(b, CallOf("then", NoArgs))
       \/ Step(b, LazySteps) /\ Catch(b) /\ Log(b, CallOf("catch", NoArgs))
       \/ b <= made /\ Respond(b, AllResponses) /\ UNCHANGED hist

SpecLazy == Init /\ [][NextLazy]_vars

\* -------------------------------------------------------- module set-up
\* process.env.DATABASE_URL: None when it is not set
Urls == { None, Some("postgres://db/app") }

\* The module body (lines 68-76 and 405): what it prints, the pool it
\* constructs and whether it throws. A missing DATABASE_URL is warned
\* about; the pool is constructed with connectionString undefined.
ModuleLoad(databaseUrl) ==
  [ url |-> databaseUrl,
    warning |-> IF IsNone(databaseUrl)
                THEN Some("DATABASE_URL is required - queries will fail without it")
                ELSE None,
    pool |-> Some([connectionString |-> databaseUrl]),
    threw |-> FALSE ]

\* hist[0] holds the record of the module's load, once it ran
Loaded == Len(hist[0]) = 1
Exported == Loaded /\ ~hist[0][1].threw

\* the importing program loads the module with DATABASE_URL set or not
Load(databaseUrl) ==
  /\ ~Loaded
  /\ hist' = [hist EXCEPT ![0] = <<ModuleLoad(databaseUrl)>>]
  /\ UNCHANGED <<qb, made, steps, execs, filters>>

\* The module loaded with or without DATABASE_URL, then one select chain
\* built from the exported db, consumed, and answered by the connector.
NextSetup ==
  \/ \E u \in Urls : Load(u)
  \/ Exported /\ From(0, "users", 1) /\ UNCHANGED hist
  \/ \E b \in ChainIds :
       \/ Exported /\ Solo(b) /\ Select(b, SelectArgs)
       \/ Exported /\ Solo(b) /\ Eq(b, CompareArgs)
       \/ Exported /\ Solo(b) /\ Then(b)
       \/ Exported /\ b <= made /\ Respond(b, AllResponses) /\ UNCHANGED hist

SpecSetup == Init /\ [][NextSetup]_vars

\* ------------------------------------------------------------- updates
\* One chain built from db with filter calls and update() in every order,
\* each call recorded, consumed, and answered by the connector.
NextUpdate ==
  \/ From(0, "users", 1) /\ UNCHANGED hist
  \/ \E b \in ChainIds :
       \/ \E a \in ColumnCompareArgs :
            Step(b, UpdateSteps) /\ Eq(b, {a}) /\ Log(b, CallOf("eq", a))
       \/ \E a \in IsArgs :
            Step(b, UpdateSteps) /\ Is(b, {a}) /\ Log(b, CallOf("is", a))
       \/ \E a \in NotArgs :
            Step(b, UpdateSteps) /\ Not(b, {a}) /\ Log(b, CallOf("not", a))
       \/ \E d \in UpdateArgs :
            Step(b, UpdateSteps) /\ Update(b, {d}) /\ Log(b, CallOf("update", d))
       \/ Step(b, UpdateSteps) /\ Then(b) /\ Log(b, CallOf("then", NoArgs))
       \/ b <= made /\ Respond(b, FewResponses) /\ UNCHANGED hist

SpecUpdate == Init /\ [][NextUpdate]_vars

\* ---------------------------------------------------------------- rows
\* the values a row may hold: null, undefined, scalars, arrays (empty, of
\* scalars, of objects, of arrays, mixed) and a plain object
ObjA == VObj(<<Entry("a", VNum(1))>>)
BoundValueKinds ==
  { VNull, VUndef, VNum(1), VStr("x"), VBool(TRUE),
    VArr(<<>>), VArr(<<VNum(1), VNum(2)>>), VArr(<<ObjA, ObjA>>),
    VArr(<<VArr(<<VNum(1)>>)>>), VArr(<<VNum(1), ObjA>>), VArr(<<VNull>>), ObjA }

\* one mapping per kind of value, a mapping without keys, and sequences of
\* rows with the same keys and with different keys
RowsData ==
  { VObj(<<Entry("v", v)>>) : v \in BoundValueKinds }
    \cup { RowJane, RowEmail, VObj(<<>>),
           VArr(<<RowA, RowB>>), VArr(<<RowEmail, RowJane>>),
           VArr(<<RowJane, RowJane, RowEmail>>) }
UpdateData == { d \in RowsData : d.t = "object" }

\* One chain built from db with insert, upsert and update of every kind of
\* row and value, with or without select(), each call recorded, consumed,
\* and answered by the connector.
NextRows ==
  \/ From(0, "users", 1) /\ UNCHANGED hist
  \/ \E b \in ChainIds :
       \/ \E d \in RowsData :
            Step(b, RowSteps) /\ Insert(b, {d}) /\ Log(b, CallOf("insert", [data |-> d]))
       \/ \E d \in RowsData :
            /\ Step(b, RowSteps)
            /\ Upsert(b, {[data |-> d, onConflict |-> None]})
            /\ Log(b, CallOf("upsert", [data |-> d]))
       \/ \E d \in UpdateData :
            Step(b, RowSteps) /\ Update(b, {d}) /\ Log(b, CallOf("update", [data |-> d]))
       \/ Step(b, RowSteps) /\ Select(b, {SelectAll}) /\ Log(b, CallOf("select", NoArgs))
       \/ Step(b, RowSteps) /\ Then(b) /\ Log(b, CallOf("then", NoArgs))
       \/ b <= made /\ Respond(b, FewResponses) /\ UNCHANGED hist

SpecRows == Init /\ [][NextRows]_vars

\* ------------------------------------------------------ select shapes
\* '*' and 'id, name'
ShapeSelectArgs ==
  { SelectAll,
    [columns |-> Columns(<< Part("", "id"), Part(" ", "name") >>, None), count |-> "none"] }
ShapeIsArgs == { [column |-> ColName, value |-> VNull] }
ShapeOrderArgs ==
  { [column |-> ColName, ascending |-> "omitted"],
    [column |-> ColName, ascending |-> "true"],
    [column |-> ColId, ascending |-> "false"] }
ShapeLimitArgs == {0, 10}

\* One select chain without join built from db with filters, order(),
\* limit() and single() in every order, each call recorded, and consumed.
NextShape ==
  \/ From(0, "users", 1) /\ UNCHANGED hist
  \/ \E b \in ChainIds :
       \/ \E a \in ShapeSelectArgs :
            Step(b, ShapeSteps) /\ Select(b, {a}) /\ Log(b, CallOf("select", a))
       \/ \E a \in CompareArgs :
            Step(b, ShapeSteps) /\ Eq(b, {a}) /\ Log(b, CallOf("eq", a))
       \/ \E a \in ShapeIsArgs :
            Step(b, ShapeSteps) /\ Is(b, {a}) /\ Log(b, CallOf("is", a))
       \/ \E a \in ShapeOrderArgs :
            Step(b, ShapeSteps) /\ Order(b, {a}) /\ Log(b, CallOf("order", a))
       \/ \E n \in ShapeLimitArgs :
            Step(b, ShapeSteps) /\ Limit(b, {n}) /\ Log(b, CallOf("limit", [n |-> n]))
       \/ Step(b, ShapeSteps) /\ Single(b) /\ Log(b, CallOf("single", [n |-> 1]))
       \/ Step(b, ShapeSteps) /\ Then(b) /\ Log(b, CallOf("then", NoArgs))

SpecShape == Init /\ [][NextShape]_vars

\* ------------------------------------------------- reading a statement
IsPh(tok) == \E n \in 1..PhMax : tok = Ph(n)
PhIndex(tok) == CHOOSE n \in 1..PhMax : tok = Ph(n)

\* the placeholder indices of a token sequence, in text order
RECURSIVE PhSeq(_)
PhSeq(toks) ==
  IF Len(toks) = 0 THEN <<>>
  ELSE (IF IsPh(toks[1]) THEN <<PhIndex(toks[1])>> ELSE <<>>) \o PhSeq(Tail(toks))

\* the position of the first token tok, 0 when there is none
Pos(toks, tok) ==
  IF \E i \in 1..Len(toks) : toks[i] = tok
  THEN CHOOSE i \in 1..Len(toks) : toks[i] = tok /\ \A j \in 1..(i - 1) : toks[j] # tok
  ELSE 0

\* the tokens before the WHERE keyword, and from it on
BeforeWhere(toks) ==
  IF Pos(toks, "WHERE") = 0 THEN toks ELSE SubSeq(toks, 1, Pos(toks, "WHERE") - 1)
FromWhere(toks) ==
  IF Pos(toks, "WHERE") = 0 THEN <<>> ELSE SubSeq(toks, Pos(toks, "WHERE"), Len(toks))

Range(seq) == { seq[i] : i \in 1..Len(seq) }
Upto(lo, hi) == [i \in 1..(hi - lo + 1) |-> lo + i - 1]

\* the envelope a settled execution resolved with
Settles(ex) == ex.pc = "settled" /\ ~IsNone(ex.out)
Envelope(ex) == Get(ex.out).value
AllOk(ex) == \A k \in 1..Len(ex.got) : ex.got[k].ok
Failed(ex) == Len(ex.got) > 0 /\ ~ex.got[Len(ex.got)].ok
NotFound == VObj(<<Entry("message", VStr("Row not found"))>>)

\* --------------------------------------------------------------- claims

\* C1: whatever the operation, when the connector fails a statement of an
\* execution (the main statement or the COUNT statement), the promise is
\* fulfilled, never rejected, with data null, the caught error and count
\* null.
NeverThrow ==
  \A b \in Ids : \A i \in 1..Len(execs[b]) :
    LET ex == execs[b][i]
    IN Failed(ex) =>
         /\ ex.pc = "settled"
         /\ ex.out = Some([ state |-> "fulfilled",
                            value |-> [ data |-> VNull,
                                        error |-> ex.got[Len(ex.got)].err,
                                        count |-> VNull ] ])

\* C1 witness: one chain whose exact-count select lost its COUNT statement
\* and whose update lost its statement.
NeverThrowWitness ==
  \E b \in Ids : \E i, j \in 1..Len(execs[b]) :
    /\ execs[b][i].kind = "select" /\ Len(execs[b][i].got) = 2 /\ Failed(execs[b][i])
    /\ execs[b][j].kind = "update" /\ Failed(execs[b][j])

\* C2: a select chain on which single() was called, all of whose statements
\* succeed, resolves with data null and the error "Row not found" when the
\* connector returned no row, and otherwise with error null and data the
\* first row returned (in the nested shape when the select embeds a
\* relation).
SingleRowContract ==
  \A b \in Ids : \A i \in 1..Len(execs[b]) :
    LET ex == execs[b][i]
        rows == ex.got[1].rows.e
    IN (ex.chain.operation = Some("select") /\ ex.chain.singleResult
          /\ Settles(ex) /\ AllOk(ex)) =>
         IF Len(rows) = 0
         THEN Envelope(ex).data = VNull /\ Envelope(ex).error = NotFound
         ELSE /\ Envelope(ex).error = VNull
              /\ Envelope(ex).data =
                   IF Len(ex.chain.joins) > 0
                   THEN ReshapeRow(rows[1], ex.chain.joins[1])
                   ELSE rows[1]

\* C2 witness: the same single-row select consumed twice, answered once
\* with no row and once with several.
SingleRowWitness ==
  \E b \in Ids : \E i, j \in 1..Len(execs[b]) :
    /\ execs[b][i].chain.operation = Some("select") /\ execs[b][i].chain.singleResult
    /\ Settles(execs[b][i]) /\ AllOk(execs[b][i])
    /\ Len(execs[b][i].got[1].rows.e) = 0
    /\ execs[b][j].chain.operation = Some("select") /\ execs[b][j].chain.singleResult
    /\ Settles(execs[b][j]) /\ AllOk(execs[b][j])
    /\ Len(execs[b][j].got[1].rows.e) > 1

\* the filter calls that pass a value to bind: the comparisons, is() with a
\* value other than null, and not() with the operator 'eq'
Binds(call) ==
  \/ call.method \in {"eq", "neq", "gt", "gte", "lt", "lte"}
  \/ call.method = "is" /\ call.value # VNull
  \/ call.method = "not" /\ call.operator = "eq"

RECURSIVE BoundValues(_)
BoundValues(calls) ==
  IF Len(calls) = 0 THEN <<>>
  ELSE (IF Binds(calls[1]) THEN <<calls[1].value>> ELSE <<>>) \o BoundValues(Tail(calls))

\* the values an update chain binds for its SET clause, in key order
SetValues(chain) ==
  LET data == Get(chain.updateData)
  IN [i \in 1..Len(data.e) |-> pgVal(data.e[i].v)]

\* the UPDATE statement st has its WHERE placeholders numbered 1..n, its
\* SET placeholders n+1..n+m, and the parameters vals \o sets
Aligned(st, vals, sets) ==
  LET n == Len(vals)
      m == Len(sets)
  IN /\ Len(PhSeq(st.sql)) = n + m
     /\ PhSeq(FromWhere(st.sql)) = Upto(1, n)
     /\ PhSeq(BeforeWhere(st.sql)) = Upto(n + 1, n + m)
     /\ st.params = vals \o sets

\* b's i-th consumption is the first that ran an update
FirstUpdate(b, i) ==
  /\ execs[b][i].kind = "update"
  /\ \A j \in 1..(i - 1) : execs[b][j].kind # "update"

\* C3 as stated: with N the number of filter calls (any of the eight
\* methods) and M the number of updated columns, the UPDATE statement has
\* N+M placeholders, the filters' numbered 1..N and the SET ones N+1..N+M,
\* and as many parameters.
AlignmentAllFilters ==
  \A b \in Ids : \A i \in 1..Len(execs[b]) :
    LET ex == execs[b][i]
        N == Len(ex.filters)
        M == Len(SetValues(ex.chain))
        st == ex.stmts[1]
    IN FirstUpdate(b, i) =>
         /\ Len(PhSeq(st.sql)) = N + M
         /\ PhSeq(FromWhere(st.sql)) = Upto(1, N)
         /\ PhSeq(BeforeWhere(st.sql)) = Upto(N + 1, N + M)
         /\ Len(st.params) = N + M

\* C3 amended: with N counting only the filter calls that bind a value
\* (is(col, null), not(col, 'is', null) and a not() with an unsupported
\* operator bind none), the UPDATE statement of the chain's first update
\* execution has N+M placeholders, the filters' numbered 1..N in call
\* order, the SET ones N+1..N+M in key order, and its parameter list is the
\* N filter values followed by the M coerced update values.
ParameterAlignment ==
  \A b \in Ids : \A i \in 1..Len(execs[b]) :
    LET ex == execs[b][i]
    IN FirstUpdate(b, i) =>
         Aligned(ex.stmts[1], BoundValues(ex.filters), SetValues(ex.chain))

\* C3 witness: an update of two columns behind two filter calls, one that
\* binds a value and one that does not.
ParameterAlignmentWitness ==
  \E b \in Ids : \E i \in 1..Len(execs[b]) :
    /\ FirstUpdate(b, i)
    /\ Len(execs[b][i].filters) = 2
    /\ Len(BoundValues(execs[b][i].filters)) = 1
    /\ Len(SetValues(execs[b][i].chain)) = 2

\* C4: every statement handed to the connector comes with as many
\* parameters as it has distinct placeholders, which are exactly
\* $1..$length, each used once.
PlaceholdersMatchParams ==
  \A b \in Ids : \A i \in 1..Len(execs[b]) : \A k \in 1..Len(execs[b][i].stmts) :
    LET st == execs[b][i].stmts[k]
        phs == PhSeq(st.sql)
    IN /\ Range(phs) = 1..Len(st.params)
       /\ Len(phs) = Len(st.params)

\* C7: consuming a chain on which no operation was set fulfils the promise
\* with data null and the error "No operation specified", and hands no
\* statement to the connector.
MissingOperation ==
  \A b \in Ids : \A i \in 1..Len(execs[b]) :
    LET ex == execs[b][i]
    IN IsNone(ex.chain.operation) =>
         /\ Settles(ex)
         /\ Get(ex.out).state = "fulfilled"
         /\ Envelope(ex).data = VNull
         /\ Envelope(ex).error = VErr("No operation specified")
         /\ ex.stmts = <<>>

\* C7 witness: a chain with a filter and a limit but no operation was
\* consumed.
MissingOperationWitness ==
  \E b \in Ids : \E i \in 1..Len(execs[b]) :
    /\ IsNone(execs[b][i].chain.operation)
    /\ Len(execs[b][i].chain.wheres) > 0
    /\ ~IsNone(execs[b][i].chain.limitVal)

\* the chain asks the statement for its rows: a select, an upsert, or an
\* insert/update followed by select()
WantsRows(chain) ==
  chain.operation \in {Some("select"), Some("upsert")} \/ chain.returnData

\* C8: for every operation, a successful execution resolves with error
\* null unless single() was called and no row came back, and then with data
\* null and the error "Row not found".
NotFoundEverywhere ==
  \A b \in Ids : \A i \in 1..Len(execs[b]) :
    LET ex == execs[b][i]
        none == Len(ex.got[1].rows.e) = 0
    IN (Settles(ex) /\ AllOk(ex) /\ Len(ex.got) > 0 /\ WantsRows(ex.chain)) =>
         /\ (ex.chain.singleResult /\ none) =>
              Envelope(ex).data = VNull /\ Envelope(ex).error = NotFound
         /\ (~qb[b].singleResult \/ ~none) => Envelope(ex).error = VNull

\* C9: every envelope has the three fields data, error and count; count is
\* null or a number, and a number only for a select with count 'exact';
\* every failure envelope is {data: null, error, count: null}.
UniformEnvelope ==
  \A b \in Ids : \A i \in 1..Len(execs[b]) :
    LET ex == execs[b][i]
        env == Envelope(ex)
    IN Settles(ex) =>
         /\ Get(ex.out).state = "fulfilled"
         /\ DOMAIN env = {"data", "error", "count"}
         /\ env.count.t \in {"null", "number"}
         /\ env.count # VNull => ex.kind = "select" /\ Len(ex.stmts) = 2
         /\ env.error.t = "Error" => env.data = VNull /\ env.count = VNull

\* C10: on every builder, singleResult implies limitVal = 1, and a select
\* compiled from a single-row chain ends in LIMIT 1.
SingleForcesLimit ==
  /\ \A b \in Ids : qb[b].singleResult => qb[b].limitVal = Some(1)
  /\ \A b \in Ids : \A i \in 1..Len(execs[b]) :
       LET ex == execs[b][i]
           sql == ex.stmts[1].sql
       IN (ex.kind = "select" /\ ex.chain.singleResult) =>
            SubSeq(sql, Len(sql) - 1, Len(sql)) = <<"LIMIT", "1">>

NoInterference ==
  /\ qb[0] = NewBuilder
  /\ \A b \in ChainIds :
       b <= made =>
         [this |-> qb[b], execs |-> execs[b], filters |-> filters[b]] = Alone(hist[b])

\* C6 witness: while one chain waits between its select and its COUNT
\* statement, another chain, made from it, has run an update to the end.
NoInterferenceWitness ==
  \E b, c \in ChainIds :
    /\ b <= made /\ c <= made /\ b # c
    /\ hist[c][1].by = b
    /\ Len(execs[b]) = 1 /\ execs[b][1].pc = "count"
    /\ Len(execs[c]) = 1 /\ execs[c][1].kind = "update" /\ Settles(execs[c][1])

\* C11: once a chain's operation is set, no later call changes it, and no
\* call of another mutating method replaces the rows or the values
\* recorded for it.
OneOperation ==
  [][ \A b \in Ids :
        ~IsNone(qb[b].operation) =>
          /\ qb'[b].operation = qb[b].operation
          /\ qb[b].operation \in {Some("insert"), Some("upsert")} =>
               qb'[b].updateData = qb[b].updateData
          /\ qb[b].operation \in {Some("update"), Some("select")} =>
               qb'[b].insertData = qb[b].insertData ]_vars

\* C12: a step of an execution (its start at then()/catch(), or the
\* connector's answer) leaves every field of every builder unchanged.
ExecutionKeepsState ==
  [][ execs' # execs => qb' = qb ]_vars

\* the position in h of the i-th consumption
NthThen(h, i) ==
  CHOOSE k \in 1..Len(h) :
    h[k].op = "then" /\ Cardinality({ j \in 1..k : h[j].op = "then" }) = i

\* the last call of method op recorded in h before position k
LastCall(h, k, op) ==
  LET at == CHOOSE j \in 1..(k - 1) :
              h[j].op = op /\ \A l \in (j + 1)..(k - 1) : h[l].op # op
  IN h[at].args

\* the tokens of a statement between the first token lo and the first
\* token hi
Between(toks, lo, hi) == SubSeq(toks, Pos(toks, lo) + 1, Pos(toks, hi) - 1)

\* the column names an upsert call gives as its conflict target
ConflictTarget(onConflict) ==
  IF IsNone(onConflict) \/ Get(onConflict) = << Part("", "") >>
  THEN {"id"}
  ELSE { Get(onConflict)[k].name : k \in 1..Len(Get(onConflict)) }

\* the keys of the first row of an upsert call's data
FirstRowKeys(data) ==
  LET row == IF data.t = "array" THEN data.e[1] ELSE data
  IN [k \in 1..Len(row.e) |-> row.e[k].k]

\* C13: the DO UPDATE SET clause of an upsert statement assigns, from
\* EXCLUDED, exactly the first-row columns that are not in the call's
\* conflict target (id when onConflict is omitted or empty), in first-row
\* key order, and no column of the conflict target.
ConflictExclusion ==
  \A b \in ChainIds : \A i \in 1..Len(execs[b]) :
    LET ex == execs[b][i]
        call == LastCall(hist[b], NthThen(hist[b], i), "upsert")
        target == ConflictTarget(call.onConflict)
        keys == FirstRowKeys(call.data)
        kept == SelectSeq(keys, LAMBDA k : k \notin target)
        set == Between(ex.stmts[1].sql, "DO UPDATE SET", "RETURNING *")
    IN (ex.kind = "upsert" /\ Len(ex.stmts) > 0) =>
         /\ Len(set) = IF Len(kept) = 0 THEN 0 ELSE 4 * Len(kept) - 1
         /\ \A k \in 1..Len(kept) :
              /\ set[4 * k - 3] = Quoted(kept[k])
              /\ set[4 * k - 2] = "="
              /\ set[4 * k - 1] = "EXCLUDED." \o Quoted(kept[k])
         /\ \A k \in 1..Len(set) : \A c \in target : set[k] # Quoted(c)

\* C13 witness: an upsert compiled with the conflict target 'email, id' on
\* a row with the keys email, name, id.
ConflictExclusionWitness ==
  \E b \in ChainIds : \E i \in 1..Len(execs[b]) :
    /\ execs[b][i].kind = "upsert"
    /\ LastCall(hist[b], NthThen(hist[b], i), "upsert") =
         [data |-> RowEmail, onConflict |-> Some(<< Part("", "email"), Part(" ", "id") >>)]
    /\ Between(execs[b][i].stmts[1].sql, "DO UPDATE SET", "RETURNING *") =
         << Quoted("name"), "=", "EXCLUDED." \o Quoted("name") >>

\* the chain-method calls recorded in h before position k
CallsBefore(h, k) ==
  SelectSeq(SubSeq(h, 1, k - 1), LAMBDA e : e.op \notin {"from", "spawn", "then", "respond"})

\* the primary statement of an execution: none when nothing was compiled
Primary(ex) == SubSeq(ex.stmts, 1, IF Len(ex.stmts) > 0 THEN 1 ELSE 0)

\* C14: two chains made by from() with the same table and given the same
\* sequence of chain-method calls compile to the same SQL text and the
\* same parameter list, whatever was built or executed before or in
\* between.
DeterministicCompilation ==
  \A b, c \in ChainIds :
    (b <= made /\ c <= made /\ b # c /\ hist[b][1].table = hist[c][1].table) =>
      \A i \in 1..Len(execs[b]) : \A j \in 1..Len(execs[c]) :
        CallsBefore(hist[b], NthThen(hist[b], i)) = CallsBefore(hist[c], NthThen(hist[c], j))
          => Primary(execs[b][i]) = Primary(execs[c][j])

\* the text a column reference is to compile to: col->>'key' for a name of
\* the form col->key, the double-quoted name otherwise
Resolved(col) ==
  IF Len(col) = 2 THEN col[1] \o "->>'" \o col[2] \o "'"
  ELSE "\"" \o col[1] \o "\""

\* new is old with one more element
Appended(old, new) == Len(new) = Len(old) + 1 /\ SubSeq(new, 1, Len(old)) = old
Last(seq) == seq[Len(seq)]

\* the step records a call on chain b
Calls(b) == Len(hist'[b]) = Len(hist[b]) + 1

\* C15: every filter method and order() compile their column argument the
\* same way: as col->>'key' when the name is col->key, as "col" otherwise.
\* The comparisons, is() and order() always append a fragment that starts
\* with it; not() does whenever it appends one.
ColumnResolution ==
  [][ \A b \in ChainIds :
        Calls(b) =>
          LET e == Last(hist'[b])
              col == Resolved(e.args.column)
          IN /\ e.op = "order" =>
                  /\ Appended(qb[b].orderClauses, qb'[b].orderClauses)
                  /\ Last(qb'[b].orderClauses)[1] = col
                  /\ qb'[b].wheres = qb[b].wheres
             /\ e.op \in {"eq", "neq", "gt", "gte", "lt", "lte", "is"} =>
                  /\ Appended(qb[b].wheres, qb'[b].wheres)
                  /\ Last(qb'[b].wheres)[1] = col
             /\ e.op = "not" =>
                  \/ qb'[b].wheres = qb[b].wheres
                  \/ /\ Appended(qb[b].wheres, qb'[b].wheres)
                     /\ Last(qb'[b].wheres)[1] = col ]_vars

\* C15 witness: lte() on the JSON path metadata->plan, then order() on it.
ColumnResolutionWitness ==
  \E b \in ChainIds :
    /\ Len(hist[b]) = 2
    /\ hist[b][1].op = "lte" /\ hist[b][1].args.column = ColMeta
    /\ hist[b][2].op = "order" /\ hist[b][2].args.column = ColMeta
    /\ qb[b].wheres[1][1] = "metadata->>'plan'"
    /\ qb[b].orderClauses[1][1] = "metadata->>'plan'"

Filters(b) == Len(filters'[b]) = Len(filters[b]) + 1

\* the filter calls that append a fragment: all but a not() whose operator
\* is neither 'eq' nor 'is' with null
Appends(call) ==
  \/ call.method # "not"
  \/ call.operator = "eq"
  \/ call.operator = "is" /\ call.value = VNull

\* fragments laid out one after the other with AND between them
RECURSIVE AndJoined(_)
AndJoined(frags) ==
  IF Len(frags) = 0 THEN <<>>
  ELSE IF Len(frags) = 1 THEN frags[1]
  ELSE frags[1] \o <<"AND">> \o AndJoined(Tail(frags))

\* the WHERE clause of a statement: what follows the keyword, up to
\* RETURNING *
WhereClause(sql) ==
  LET w == FromWhere(sql)
      n == IF Len(w) > 0 /\ w[Len(w)] = "RETURNING *" THEN Len(w) - 1 ELSE Len(w)
  IN SubSeq(w, 2, n)

\* every compiled statement carries the chain's fragments AND-joined in
\* the order they were appended
WhereInCallOrder ==
  \A b \in ChainIds : \A i \in 1..Len(execs[b]) :
    LET ex == execs[b][i]
    IN Len(ex.stmts) > 0 => WhereClause(ex.stmts[1].sql) = AndJoined(ex.chain.wheres)

Lifted(o, r, join) ==
  LET t == join.table
      alias(n) == t \o "_" \o join.columns[n]
      aliases == { alias(n) : n \in 1..Len(join.columns) }
      nested == Prop(o, t)
  IN /\ nested.t = "object"
     /\ Keys(nested) = join.columns
     /\ \A n \in 1..Len(join.columns) : Prop(nested, join.columns[n]) = Prop(r, alias(n))
     /\ Range(Keys(o)) \cap aliases = {}
     /\ Range(Keys(o)) = (Range(Keys(r)) \ aliases) \cup {t}
     /\ \A key \in Range(Keys(r)) \ (aliases \cup {t}) : Prop(o, key) = Prop(r, key)

\* C16: a select that did not fail and whose chain embeds a relation t(c1, ..., ck)
\* (the first one embedded, when select() was called several times)
\* returns every driver row with a nested object under t holding exactly
\* c1..ck taken from t_c1..t_ck, without the flat keys t_c1..t_ck and with
\* every other column unchanged; under single() the data is the first row
\* in that shape.
JoinReshape ==
  \A b \in ChainIds : \A i \in 1..Len(execs[b]) :
    LET ex == execs[b][i]
        rows == ex.got[1].rows.e
        data == Envelope(ex).data
        out == IF data.t = "array" THEN data.e
               ELSE IF data = VNull THEN <<>> ELSE <<data>>
    IN (ex.kind = "select" /\ Len(ex.chain.joins) > 0 /\ Settles(ex) /\ AllOk(ex)
          /\ Envelope(ex).error.t # "Error") =>
         /\ \A k \in 1..Len(out) : Lifted(out[k], rows[k], ex.chain.joins[1])
         /\ ex.chain.singleResult =>
              data.t # "array" /\ Len(out) = (IF Len(rows) = 0 THEN 0 ELSE 1)
         /\ ~qb[b].singleResult => data.t = "array" /\ Len(out) = Len(rows)

\* C16 witness: a select embedding orders(total, status) returned its two
\* rows nested, and after single() its first row nested.
JoinReshapeWitness ==
  \E b \in ChainIds : \E i, j \in 1..Len(execs[b]) :
    /\ Len(execs[b][i].chain.joins) > 0
    /\ execs[b][i].chain.joins[1].columns = <<"total", "status">>
    /\ Settles(execs[b][i])
    /\ Envelope(execs[b][i]).data.t = "array"
    /\ Len(Envelope(execs[b][i]).data.e) = 2
    /\ Prop(Envelope(execs[b][i]).data.e[2], "orders") =
         VObj(<< Entry("total", VNull), Entry("status", VNull) >>)
    /\ execs[b][j].chain.singleResult
    /\ Settles(execs[b][j])
    /\ Prop(Envelope(execs[b][j]).data, "orders") =
         VObj(<< Entry("total", VNum(5)), Entry("status", VStr("paid")) >>)

\* the join descriptor a statement is compiled with: the first recorded
JoinSpec(this) == IF Len(this.joins) = 0 THEN None ELSE Some(this.joins[1])

\* the join descriptor and the projection a column string stands for
Descriptor(columns) ==
  IF IsNone(columns.rel) THEN None
  ELSE LET r == Get(columns.rel)
       IN Some([ table |-> r.stem \o r.plural,
                 columns |-> [n \in 1..Len(r.cols) |-> r.cols[n].name],
                 fk |-> r.stem \o "_id" ])
Projection(columns) ==
  IF columns.cols = <<>> THEN << Part("", "*") >> ELSE columns.cols

\* C19: select() called while the operation is insert, update or upsert
\* only sets returnData; called otherwise it sets the operation to select,
\* the projection, countExact and, when its column string embeds a
\* relation, the join descriptor of that relation.
SelectDualPurpose ==
  [][ \A b \in ChainIds :
        Calls(b) /\ Last(hist'[b]).op = "select" =>
          LET a == Last(hist'[b]).args
              this == qb[b]
              next == qb'[b]
          IN IF this.operation \in {Some("insert"), Some("update"), Some("upsert")}
             THEN next = [this EXCEPT !.returnData = TRUE]
             ELSE /\ next.operation = Some("select")
                  /\ next.selectCols = Projection(a.columns)
                  /\ next.countExact = (a.count = "exact")
                  /\ ~IsNone(a.columns.rel) => JoinSpec(next) = Descriptor(a.columns) ]_vars

\* the data a mutation that hands its rows back resolves with: the first
\* row or null under single(), else the rows
RowsAsData(b, ex, data) ==
  LET rows == ex.got[1].rows
      first == IF Len(rows.e) > 0 THEN rows.e[1] ELSE VNull
  IN /\ data \in {rows, first}
     /\ ex.chain.singleResult => data = first
     /\ ~qb[b].singleResult => data = rows

\* C20: an INSERT or UPDATE statement ends in RETURNING * exactly when
\* select() had been called on the chain after the mutation method, and
\* when it was not called the data of a successful execution is null, and
\* when it was the data is the rows; an UPSERT statement always ends in
\* RETURNING * and a successful upsert always resolves with the rows.
ReturningDiscipline ==
  \A b \in ChainIds : \A i \in 1..Len(execs[b]) :
    LET ex == execs[b][i]
        sql == ex.stmts[1].sql
        ok == Settles(ex) /\ AllOk(ex)
    IN Len(ex.stmts) > 0 =>
         /\ ex.kind \in {"insert", "update"} =>
              /\ (Last(sql) = "RETURNING *") <=> ex.chain.returnData
              /\ (ok /\ ~qb[b].returnData) => Envelope(ex).data = VNull
              /\ (ok /\ ex.chain.returnData) => RowsAsData(b, ex, Envelope(ex).data)
         /\ ex.kind = "upsert" =>
              /\ Last(sql) = "RETURNING *"
              /\ ok => RowsAsData(b, ex, Envelope(ex).data)

\* C20 witness: the same insert consumed before select() was called, which
\* resolved with data null though the connector returned rows, and after
\* it, which resolved with the two rows.
ReturningDisciplineWitness ==
  \E b \in ChainIds : \E i, j \in 1..Len(execs[b]) :
    /\ execs[b][i].kind = "insert" /\ ~execs[b][i].chain.returnData
    /\ Settles(execs[b][i]) /\ AllOk(execs[b][i])
    /\ Len(execs[b][i].got) = 1 /\ Len(execs[b][i].got[1].rows.e) = 2
    /\ Envelope(execs[b][i]).data = VNull
    /\ execs[b][j].kind = "insert" /\ execs[b][j].chain.returnData
    /\ Last(execs[b][j].stmts[1].sql) = "RETURNING *"
    /\ Settles(execs[b][j]) /\ AllOk(execs[b][j])
    /\ Envelope(execs[b][j]).data = VArr(<<Row1, Row2>>)

\* the AND-joined fragments of a statement: what follows WHERE, up to the
\* next clause
Fragments(sql) ==
  LET w == FromWhere(sql)
      stop == { k \in 2..Len(w) : w[k] \in {"ORDER BY", "LIMIT", "RETURNING *"} }
      n == IF stop = {} THEN Len(w) ELSE (CHOOSE k \in stop : \A j \in stop : k <= j) - 1
  IN SubSeq(w, 2, n)

\* execution i of chain b gets the answer to its main statement in this
\* step, and the statement succeeded
MainAnswered(b, i) ==
  /\ i <= Len(execs[b])
  /\ execs[b][i].pc = "main"
  /\ Len(execs'[b][i].got) = 1
  /\ execs'[b][i].got[1].ok

\* what holds of the statements of every execution at every moment
OneAtATime ==
  \A b \in ChainIds : \A i \in 1..Len(execs[b]) :
    LET ex == execs[b][i]
        n == Len(ex.stmts)
    IN /\ n - Len(ex.got) \in {0, 1}
       /\ ex.kind \in {"insert", "update", "upsert"} => n <= 1
       /\ ex.kind = "select" =>
            /\ n \in {1, 2}
            /\ ex.stmts[1].sql[1] = "SELECT"
            /\ n = 2 =>
                 /\ Len(ex.got) >= 1 /\ ex.got[1].ok
                 /\ ex.stmts[2].sql[1] = "SELECT COUNT(*) FROM"
                 /\ Fragments(ex.stmts[2].sql) = Fragments(ex.stmts[1].sql)
                 /\ ex.stmts[2].params = ex.stmts[1].params
            /\ (n = 2 /\ Settles(ex) /\ AllOk(ex)) =>
                 Envelope(ex).count = ParseInt(Prop(ex.got[2].rows.e[1], "count"))

\* C21: an execution of a select chain issues one main statement; when the
\* main statement's response arrives, and not before, it issues a second
\* statement, SELECT COUNT(*), exactly when count 'exact' is requested on
\* the chain, with the WHERE fragments and the parameter list of the main
\* statement, and its integer result is the count; an insert, update or
\* upsert issues at most one statement; no execution has two statements
\* outstanding.
StatementOrdering ==
  /\ []OneAtATime
  /\ [][ \A b \in ChainIds : \A i \in 1..MaxSteps :
           (MainAnswered(b, i) /\ execs[b][i].kind = "select") =>
             (Len(execs'[b][i].stmts) = 2 <=> qb[b].countExact) ]_vars

\* the statements the executions of chain b handed to the connector
RECURSIVE IssuedIn(_)
IssuedIn(exs) == IF Len(exs) = 0 THEN 0 ELSE Len(exs[1].stmts) + IssuedIn(Tail(exs))
Issued(b) == IssuedIn(execs[b])

Consuming == {"then", "catch"}

\* C22: from() and every chain-construction call (select, insert, update,
\* upsert, the filter methods, order, limit, single) start no execution and
\* hand no statement to the connector; a statement goes out only in a
\* then() or catch() step, or when an execution that then()/catch() started
\* goes on after the connector's answer; a chain that was never consumed
\* has issued nothing.
LazyExecution ==
  /\ [](\A b \in ChainIds :
          Issued(b) > 0 => \E k \in 1..Len(hist[b]) : hist[b][k].op \in Consuming)
  /\ [][ \A b \in ChainIds :
           /\ (Calls(b) /\ Last(hist'[b]).op \notin Consuming) => execs' = execs
           /\ made' # made => execs' = execs
           /\ Issued(b)' > Issued(b) =>
                \/ Calls(b) /\ Last(hist'[b]).op \in Consuming
                \/ ~Calls(b) /\ Len(execs'[b]) = Len(execs[b]) /\ qb' = qb ]_vars

\* C22 witness: a chain built with insert() and select() had issued
\* nothing, and its then() handed the INSERT to the connector.
LazyExecutionWitness ==
  \E b \in ChainIds :
    /\ Len(hist[b]) = 4
    /\ hist[b][2].op = "insert" /\ hist[b][3].op = "select" /\ hist[b][4].op = "then"
    /\ Len(execs[b]) = 1
    /\ Issued(b) = 1
    /\ execs[b][1].stmts[1].sql[1] = "INSERT INTO"

\* C23: when DATABASE_URL is missing the module's set-up throws, so that no
\* builder is made and no statement is handed to the connector.
ConfigurationError ==
  (Loaded /\ IsNone(hist[0][1].url)) =>
    /\ hist[0][1].threw
    /\ made = 0
    /\ \A b \in Ids : execs[b] = <<>>

\* a recorded call made again on builder this
ApplyCall(this, e) ==
  CASE e.op = "eq" -> eq(this, e.args.column, e.args.value)
    [] e.op = "is" -> is(this, e.args.column, e.args.value)
    [] e.op = "not" -> not(this, e.args.column, e.args.operator, e.args.value)
    [] e.op = "update" -> update(this, e.args)
    [] OTHER -> this

RECURSIVE ApplyCalls(_, _)
ApplyCalls(this, calls) ==
  IF Len(calls) = 0 THEN this ELSE ApplyCalls(ApplyCall(this, calls[1]), Tail(calls))

\* what a fresh chain on users given the calls hands to the connector when
\* it is consumed
Compiled(calls) ==
  Begin(ApplyCalls([NewBuilder EXCEPT !.table = Some("users")], calls)).ex.stmts

\* C24: the statement and the parameter list of an update chain (at its
\* first update execution) are those of the chain with update() called
\* before all its filter calls and those of the chain with update() called
\* after them; the filter values are $1..$N in filter call order and the
\* SET values $N+1..$N+M in key order.
UpdatePosition ==
  \A b \in ChainIds : \A i \in 1..Len(execs[b]) :
    FirstUpdate(b, i) =>
      LET ex == execs[b][i]
          k == NthThen(hist[b], i)
          fs == SelectSeq(CallsBefore(hist[b], k), LAMBDA e : e.op # "update")
          u == CallOf("update", LastCall(hist[b], k, "update"))
      IN /\ ex.stmts = Compiled(<<u>> \o fs)
         /\ ex.stmts = Compiled(Append(fs, u))
         /\ Aligned(ex.stmts[1], BoundValues(ex.filters), SetValues(ex.chain))

\* C24 witness: update() of two columns called between two filter calls
\* that bind a value, compiled with the filters as $1, $2 and the SET
\* values as $3, $4.
UpdatePositionWitness ==
  \E b \in ChainIds :
    /\ Len(hist[b]) = 4
    /\ hist[b][1].op = "eq" /\ hist[b][2].op = "update" /\ hist[b][3].op = "eq"
    /\ hist[b][4].op = "then"
    /\ Len(execs[b]) = 1
    /\ PhSeq(execs[b][1].stmts[1].sql) = <<3, 4, 1, 2>>
    /\ Len(execs[b][1].stmts[1].params) = 4

\* items laid out with commas between them, in parentheses
RECURSIVE CommaJoined(_)
CommaJoined(items) ==
  IF Len(items) = 0 THEN <<>>
  ELSE IF Len(items) = 1 THEN items[1]
  ELSE items[1] \o <<",">> \o CommaJoined(Tail(items))
InParens(items) == <<"(">> \o CommaJoined(items) \o <<")">>

\* the value to bind for v: null and undefined as they are, '{}' for an
\* empty array, the JSON text for a non-empty array of objects and for any
\* other object, an array of non-object values and a scalar as they are;
\* nothing is said of an array that mixes objects and other values
OfObjects(v) == \A n \in 1..Len(v.e) : v.e[n].t \in {"object", "array"}
OfPlain(v) == \A n \in 1..Len(v.e) : v.e[n].t \notin {"object", "array"}
Specified(v) == v.t = "array" => (OfObjects(v) \/ OfPlain(v))
Coerced(v) ==
  CASE v.t \in {"null", "undefined"} -> v
    [] v.t = "array" /\ Len(v.e) = 0 -> VStr("{}")
    [] v.t = "array" /\ OfObjects(v) -> VStr(JsonText(v))
    [] v.t = "array" -> v
    [] v.t = "object" -> VStr(JsonText(v))
    [] OTHER -> v

\* the rows an insert or upsert call passes
RowsOf(data) == IF data.t = "array" THEN data.e ELSE <<data>>

\* the tokens of the VALUES list of a statement
ValuesList(sql) ==
  LET first == Pos(sql, "VALUES") + 1
      stop == { n \in first..Len(sql) : sql[n] \in {"ON CONFLICT", "RETURNING *"} }
      last == IF stop = {} THEN Len(sql) ELSE (CHOOSE n \in stop : \A m \in stop : n <= m) - 1
  IN SubSeq(sql, first, last)

\* C25: the statement of an insert or upsert of R >= 1 rows, a single
\* mapping counting as one row, lists the first row's K keys in order, has
\* R VALUES tuples of K placeholders numbered $1..$(R*K) row by row, and is
\* sent with R*K parameters, the ((r-1)*K+k)-th being the coerced value of
\* row r under the first row's k-th key.
InsertCompilation ==
  \A b \in ChainIds : \A i \in 1..Len(execs[b]) :
    LET ex == execs[b][i]
        st == ex.stmts[1]
        rows == RowsOf(LastCall(hist[b], NthThen(hist[b], i), ex.kind).data)
        R == Len(rows)
        keys == Keys(rows[1])
        K == Len(keys)
    IN (ex.kind \in {"insert", "upsert"} /\ Len(ex.stmts) > 0) =>
         /\ R >= 1
         /\ SubSeq(st.sql, 3, Pos(st.sql, "VALUES") - 1) =
              InParens([k \in 1..K |-> <<Quoted(keys[k])>>])
         /\ ValuesList(st.sql) =
              CommaJoined([r \in 1..R |->
                InParens([k \in 1..K |-> <<Ph((r - 1) * K + k)>>])])
         /\ Len(st.params) = R * K
         /\ \A r \in 1..R : \A k \in 1..K :
              LET v == Prop(rows[r], keys[k])
              IN Specified(v) => st.params[(r - 1) * K + k] = Coerced(v)

\* C25 witness: an upsert of three rows, the first with two keys and the
\* third with other keys, compiled to three tuples and six parameters.
InsertCompilationWitness ==
  \E b \in ChainIds : \E i \in 1..Len(execs[b]) :
    /\ execs[b][i].kind = "upsert"
    /\ Len(execs[b][i].chain.insertData[1]) = 3
    /\ PhSeq(ValuesList(execs[b][i].stmts[1].sql)) = <<1, 2, 3, 4, 5, 6>>
    /\ Len(execs[b][i].stmts[1].params) = 6
    /\ execs[b][i].stmts[1].params[5] = VNum(1)

\* the values an insert, upsert or update call asks to bind, in binding
\* order: row by row over the first row's keys, or the mapping's values
AskedValues(kind, data) ==
  IF kind = "update" THEN [n \in 1..Len(data.e) |-> data.e[n].v]
  ELSE LET rows == RowsOf(data)
           keys == Keys(rows[1])
           K == Len(keys)
       IN [n \in 1..(Len(rows) * K) |->
             Prop(rows[((n - 1) \div K) + 1], keys[((n - 1) % K) + 1])]

\* C27: every value an insert, update or upsert binds is the coerced form
\* of the value the call passed: null and undefined unchanged, an empty
\* array as '{}', a non-empty array of objects as its JSON text, a
\* non-empty array of non-object values unchanged, any other object as its
\* JSON text, a scalar unchanged.
ValueCoercion ==
  \A b \in ChainIds : \A i \in 1..Len(execs[b]) :
    LET ex == execs[b][i]
        params == ex.stmts[1].params
        asked == AskedValues(ex.kind, LastCall(hist[b], NthThen(hist[b], i), ex.kind).data)
        bound == SubSeq(params, Len(params) - Len(asked) + 1, Len(params))
    IN (ex.kind \in {"insert", "upsert", "update"} /\ Len(ex.stmts) > 0) =>
         /\ Len(params) >= Len(asked)
         /\ ex.kind # "update" => Len(params) = Len(asked)
         /\ \A n \in 1..Len(asked) : Specified(asked[n]) => bound[n] = Coerced(asked[n])

\* C27 witness: an update bound an array of two objects as its JSON text.
ValueCoercionWitness ==
  \E b \in ChainIds : \E i \in 1..Len(execs[b]) :
    /\ execs[b][i].kind = "update"
    /\ execs[b][i].chain.updateData = Some(VObj(<<Entry("v", VArr(<<ObjA, ObjA>>))>>))
    /\ execs[b][i].stmts[1].params = << VStr("[{\"a\":1},{\"a\":1}]") >>

\* the calls of calls whose method is in ops
Only(calls, ops) == SelectSeq(calls, LAMBDA e : e.op \in ops)

\* the WHERE fragments the filter calls stand for, in call order: eq binds
\* its value as the next placeholder, is(col, null) binds nothing
RECURSIVE FragmentsOf(_, _)
FragmentsOf(calls, n) ==
  IF Len(calls) = 0 THEN <<>>
  ELSE IF calls[1].op = "eq"
  THEN << <<Resolved(calls[1].args.column), "=", Ph(n + 1)>> >>
         \o FragmentsOf(Tail(calls), n + 1)
  ELSE << <<Resolved(calls[1].args.column), "IS NULL">> >> \o FragmentsOf(Tail(calls), n)

\* the ORDER BY terms the order() calls stand for
TermsOf(calls) ==
  [n \in 1..Len(calls) |->
     << Resolved(calls[n].args.column),
        IF calls[n].args.ascending = "false" THEN "DESC" ELSE "ASC" >>]

\* the projection a column string stands for
ProjectionOf(columns) ==
  IF columns.cols = << Part("", "*") >> THEN <<"*">>
  ELSE CommaJoined([n \in 1..Len(columns.cols) |->
         << "\"" \o columns.cols[n].name \o "\"" >>])

\* C26: a select chain without join compiles to SELECT <projection> FROM
\* <table>, then WHERE with the fragments AND-joined in call order when a
\* filter was called, then ORDER BY with the terms comma-joined in call
\* order (ASC unless ascending:false, then DESC) when order() was called,
\* then LIMIT n when limit(n) or single() was called (0 included), in that
\* order whatever the order of the calls.
SelectShape ==
  \A b \in ChainIds : \A i \in 1..Len(execs[b]) :
    LET ex == execs[b][i]
        k == NthThen(hist[b], i)
        calls == CallsBefore(hist[b], k)
        frags == FragmentsOf(Only(calls, {"eq", "is"}), 0)
        terms == TermsOf(Only(calls, {"order"}))
        limits == Only(calls, {"limit", "single"})
    IN ex.kind = "select" =>
         ex.stmts[1].sql =
           <<"SELECT">> \o ProjectionOf(LastCall(hist[b], k, "select").columns)
             \o <<"FROM", "\"users\"">>
             \o (IF Len(frags) > 0 THEN <<"WHERE">> \o AndJoined(frags) ELSE <<>>)
             \o (IF Len(terms) > 0 THEN <<"ORDER BY">> \o CommaJoined(terms) ELSE <<>>)
             \o (IF Len(limits) > 0
                 THEN <<"LIMIT", ToString(Last(limits).args.n)>> ELSE <<>>)

\* C26 witness: limit(0), order(id, {ascending:false}) and select('id,
\* name') called in that order compiled to SELECT "id", "name" FROM "users"
\* ORDER BY "id" DESC LIMIT 0.
SelectShapeWitness ==
  \E b \in ChainIds :
    /\ Len(hist[b]) = 4
    /\ hist[b][1].op = "limit" /\ hist[b][2].op = "order" /\ hist[b][3].op = "select"
    /\ Len(execs[b]) = 1
    /\ execs[b][1].stmts[1].sql =
         << "SELECT", "\"id\"", ",", "\"name\"", "FROM", "\"users\"",
            "ORDER BY", "\"id\"", "DESC", "LIMIT", "0" >>

\* chain b is consumed in this step
Consumed(b) == Len(execs'[b]) = Len(execs[b]) + 1

\* executions of select chains that found the builder in the same state
\* sent the same main statement, and the same COUNT statement when the
\* builder is still in that state
SameStatements ==
  \A b \in ChainIds : \A i, j \in 1..Len(execs[b]) :
    LET x == execs[b][i]
        y == execs[b][j]
    IN (x.kind = "select" /\ y.kind = "select" /\ x.chain = y.chain) =>
         /\ x.stmts[1] = y.stmts[1]
         /\ (qb[b] = x.chain /\ Len(x.stmts) = 2 /\ Len(y.stmts) = 2) =>
              x.stmts[2] = y.stmts[2]

Mutations == {Some("insert"), Some("update"), Some("upsert")}

\* the step is a limit() or single() call on chain b: the limit or the
\* single-row flag changed and nothing else
LimitOrSingle(b) ==
  /\ qb'[b] # qb[b]
  /\ qb'[b] = [qb[b] EXCEPT !.limitVal = qb'[b].limitVal,
                            !.singleResult = qb'[b].singleResult]

\* no INSERT, UPDATE or UPSERT statement has a LIMIT; a successful one
\* that hands rows back resolves with the rows, or under single() with the
\* first row or null, and with error null
MutationUnlimited ==
  \A b \in ChainIds : \A i \in 1..Len(execs[b]) :
    LET ex == execs[b][i]
        rows == ex.got[1].rows
        data == Envelope(ex).data
    IN (ex.kind \in {"insert", "update", "upsert"} /\ Len(ex.stmts) > 0) =>
         /\ "LIMIT" \notin Range(ex.stmts[1].sql)
         /\ (Settles(ex) /\ AllOk(ex) /\ WantsRows(ex.chain)) =>
              /\ ex.chain.singleResult => data = FirstOrNull(rows)
              /\ ~qb[b].singleResult => data = rows
              /\ data \in {rows, FirstOrNull(rows)}

JoinedTable(sql) ==
  IF Pos(sql, "LEFT JOIN") = 0 THEN None ELSE Some(sql[Pos(sql, "LEFT JOIN") + 1])

\* every select is compiled and reshaped with the first descriptor the
\* chain recorded
FirstJoinOnly ==
  \A b \in ChainIds : \A i \in 1..Len(execs[b]) :
    LET ex == execs[b][i]
        joins == ex.chain.joins
        data == Envelope(ex).data
        out == IF data.t = "array" THEN data.e
               ELSE IF data = VNull THEN <<>> ELSE <<data>>
    IN ex.kind = "select" =>
         /\ JoinedTable(ex.stmts[1].sql) =
              IF Len(joins) = 0 THEN None ELSE Some("\"" \o joins[1].table \o "\"")
         /\ (Len(joins) > 0 /\ Settles(ex) /\ AllOk(ex) /\ Envelope(ex).error.t # "Error") =>
              \A k \in 1..Len(out) : Lifted(out[k], ex.got[1].rows.e[k], joins[1])

====
